---- MODULE Spec2Model ----
(***************************************************************************)
(* A model of the financial-anonymizer core (FinancialAnonymizer,          *)
(* lib/dialect.ts) and of the parts of the browser application             *)
(* (scripts/app.ts) that stage files and remember dialects.                *)
(*                                                                         *)
(* Text is modelled as TLA+ strings, character by character.  Regular      *)
(* expressions of the source are transcribed as syntax trees and run by a  *)
(* small backtracking matcher with JavaScript's priority order (leftmost   *)
(* match, greedy or lazy quantifiers, ordered alternation).  Money is      *)
(* counted in integer cents; a JavaScript number is a record that is       *)
(* either NaN or a value.                                                  *)
(***************************************************************************)
EXTENDS Integers, Sequences, FiniteSets, TLC

(***************************************************************************)
(* Characters and strings                                                  *)
(***************************************************************************)
UPPER == "ABCDEFGHIJKLMNOPQRSTUVWXYZ"
LOWER == "abcdefghijklmnopqrstuvwxyz"
DIGITS == "0123456789"
PUNCT == " _*:#-./@[](),$|\"&'+\n\r\t\\~"
\* the byte-order mark U+FEFF (white space to trim() and to \s) is written "~"
BOM == "~"

Ch(s, i) == SubSeq(s, i, i)
CharsOf(s) == { Ch(s, i) : i \in 1..Len(s) }

UpperSet == CharsOf(UPPER)
LowerSet == CharsOf(LOWER)
DigitSet == CharsOf(DIGITS)
LetterSet == UpperSet \cup LowerSet
WordSet == LetterSet \cup DigitSet \cup {"_"}
SpaceSet == {" ", "\n", "\r", "\t", BOM}
Sigma == WordSet \cup CharsOf(PUNCT)

ToLowerMap == [c \in UpperSet |-> Ch(LOWER, CHOOSE i \in 1..26 : Ch(UPPER, i) = c)]
ToUpperMap == [c \in LowerSet |-> Ch(UPPER, CHOOSE i \in 1..26 : Ch(LOWER, i) = c)]
LowerCh(c) == IF c \in UpperSet THEN ToLowerMap[c] ELSE c
UpperCh(c) == IF c \in LowerSet THEN ToUpperMap[c] ELSE c

RECURSIVE toLowerCase(_)
toLowerCase(s) == IF s = "" THEN "" ELSE LowerCh(Head(s)) \o toLowerCase(Tail(s))

RECURSIVE toUpperCase(_)
toUpperCase(s) == IF s = "" THEN "" ELSE UpperCh(Head(s)) \o toUpperCase(Tail(s))

\* String.prototype.trim
RECURSIVE trimStart(_)
trimStart(s) == IF s # "" /\ Head(s) \in SpaceSet THEN trimStart(Tail(s)) ELSE s
RECURSIVE trimEnd(_)
trimEnd(s) ==
  IF s # "" /\ Ch(s, Len(s)) \in SpaceSet THEN trimEnd(SubSeq(s, 1, Len(s) - 1)) ELSE s
trim(s) == trimEnd(trimStart(s))

\* s.slice(i) with a 0-based offset i
Drop(s, i) == SubSeq(s, i + 1, Len(s))
\* s.slice(a, b) with 0-based offsets
Slice(s, a, b) == SubSeq(s, a + 1, IF b > Len(s) THEN Len(s) ELSE b)

startsWith(s, p) == Len(p) <= Len(s) /\ SubSeq(s, 1, Len(p)) = p
endsWith(s, p) == Len(p) <= Len(s) /\ SubSeq(s, Len(s) - Len(p) + 1, Len(s)) = p
\* String.prototype.includes
includes(s, p) == \E i \in 0..(Len(s) - Len(p)) : Slice(s, i, i + Len(p)) = p

\* Array.prototype.join over a sequence of strings
RECURSIVE join(_, _)
join(xs, sep) ==
  IF xs = <<>> THEN ""
  ELSE IF Len(xs) = 1 THEN xs[1]
  ELSE xs[1] \o sep \o join(Tail(xs), sep)

\* Code-unit order of the characters that occur in ISO dates and numbers
CharRank(c) ==
  IF c \in DigitSet THEN 48 + (CHOOSE i \in 0..9 : Ch(DIGITS, i + 1) = c)
  ELSE IF c = "-" THEN 45
  ELSE IF c = "." THEN 46
  ELSE IF c = "/" THEN 47
  ELSE IF c = " " THEN 32
  ELSE IF c \in UpperSet THEN 64 + (CHOOSE i \in 1..26 : Ch(UPPER, i) = c)
  ELSE IF c \in LowerSet THEN 96 + (CHOOSE i \in 1..26 : Ch(LOWER, i) = c)
  ELSE 0

\* a < b for JavaScript strings (lexicographic by code unit)
RECURSIVE StrLess(_, _)
StrLess(a, b) ==
  IF b = "" THEN FALSE
  ELSE IF a = "" THEN TRUE
  ELSE IF Head(a) = Head(b) THEN StrLess(Tail(a), Tail(b))
  ELSE CharRank(Head(a)) < CharRank(Head(b))

(***************************************************************************)
(* Regular expressions: syntax trees and a backtracking matcher            *)
(***************************************************************************)
Inf == 0 - 1

\* one character of a class
Set(cs) == [k |-> "set", cs |-> cs]
NotSet(cs) == [k |-> "set", cs |-> Sigma \ cs]
\* a literal string
Lit(s) == [k |-> "lit", s |-> s]
\* (a|b|c) over a sequence of literal strings
Words(ws) == [k |-> "words", ws |-> ws]
Cat(xs) == [k |-> "cat", xs |-> xs]
Alt(xs) == [k |-> "alt", xs |-> xs]
\* x{lo,hi}; a quantified character class is the node "run"
Quant(x, lo, hi, lazy) ==
  IF x.k = "set" THEN [k |-> "run", cs |-> x.cs, lo |-> lo, hi |-> hi, lazy |-> lazy]
  ELSE [k |-> "rep", x |-> x, lo |-> lo, hi |-> hi, lazy |-> lazy]
Rep(x, lo, hi) == Quant(x, lo, hi, FALSE)
RepLazy(x, lo, hi) == Quant(x, lo, hi, TRUE)
Star(x) == Rep(x, 0, Inf)
Plus(x) == Rep(x, 1, Inf)
Opt(x) == Rep(x, 0, 1)
Bol == [k |-> "bol"]
Eol == [k |-> "eol"]
Wb == [k |-> "wb"]

D == Set(DigitSet)
W == Set(WordSet)
S == Set(SpaceSet)
NonS == NotSet(SpaceSet)

\* does character c belong to class cs (ci: the regex has the i flag)
CharIn(c, cs, ci) ==
  c \in cs \/ (ci /\ (LowerCh(c) \in cs \/ UpperCh(c) \in cs))

\* does the literal w occur in s at offset i
LitAt(w, s, i, ci) ==
  /\ i + Len(w) <= Len(s)
  /\ \A j \in 1..Len(w) : CharIn(Ch(s, i + j), {Ch(w, j)}, ci)

IsWordAt(s, i) == i >= 1 /\ i <= Len(s) /\ Ch(s, i) \in WordSet

Min2(a, b) == IF a <= b THEN a ELSE b
MaxOf(ns) == CHOOSE n \in ns : \A m \in ns : m <= n

\* drop later duplicates, keeping the order of first occurrence
Dedup(xs) ==
  SelectSeq([j \in 1..Len(xs) |-> IF \E q \in 1..(j - 1) : xs[q] = xs[j] THEN Inf ELSE xs[j]],
            LAMBDA e : e # Inf)

\* the ends of a quantified character class: the longest run of class
\* characters from offset i, then shorter ones (greedy) or the reverse (lazy)
RunEnds(r, s, i, ci) ==
  LET cap == IF r.hi = Inf THEN Len(s) - i ELSE Min2(Len(s) - i, r.hi)
      m == MaxOf({j \in 0..cap : \A q \in 1..j : CharIn(Ch(s, i + q), r.cs, ci)})
  IN  IF m < r.lo THEN <<>>
      ELSE [j \in 1..(m - r.lo + 1) |-> IF r.lazy THEN i + r.lo + j - 1 ELSE i + m - j + 1]

\* the ends of an alternation of literal words, in the order of the words
WordsEnds(r, s, i, ci) ==
  LET hit == SelectSeq(r.ws, LAMBDA w : LitAt(w, s, i, ci))
  IN  Dedup([j \in 1..Len(hit) |-> i + Len(hit[j])])

\* Ends(r, s, i, ci): the offsets at which a match of r that starts at
\* offset i of s can end, in the order in which backtracking tries them.
RECURSIVE Ends(_, _, _, _)
RECURSIVE EndsFrom(_, _, _, _)
RECURSIVE EndsCat(_, _, _, _)
RECURSIVE EndsAlt(_, _, _, _)
RECURSIVE EndsRep(_, _, _, _, _)

Ends(r, s, i, ci) ==
  CASE r.k = "set" ->
         IF i < Len(s) /\ CharIn(Ch(s, i + 1), r.cs, ci) THEN <<i + 1>> ELSE <<>>
    [] r.k = "lit" -> IF LitAt(r.s, s, i, ci) THEN <<i + Len(r.s)>> ELSE <<>>
    [] r.k = "words" -> WordsEnds(r, s, i, ci)
    [] r.k = "run" -> RunEnds(r, s, i, ci)
    [] r.k = "cat" -> EndsCat(r.xs, s, <<i>>, ci)
    [] r.k = "alt" -> Dedup(EndsAlt(r.xs, s, i, ci))
    [] r.k = "rep" -> Dedup(EndsRep(r, s, <<i>>, ci, 0))
    [] r.k = "bol" -> IF i = 0 THEN <<i>> ELSE <<>>
    [] r.k = "eol" -> IF i = Len(s) THEN <<i>> ELSE <<>>
    [] r.k = "wb" -> IF IsWordAt(s, i) # IsWordAt(s, i + 1) THEN <<i>> ELSE <<>>

\* the ends of r from each offset of es, in the order of es
EndsFrom(r, s, es, ci) ==
  IF es = <<>> THEN <<>>
  ELSE Ends(r, s, Head(es), ci) \o EndsFrom(r, s, Tail(es), ci)

\* a concatenation, from the offsets es reached so far (in priority order)
EndsCat(xs, s, es, ci) ==
  IF xs = <<>> \/ es = <<>> THEN es
  ELSE EndsCat(Tail(xs), s, Dedup(EndsFrom(Head(xs), s, es, ci)), ci)

EndsAlt(xs, s, i, ci) ==
  IF xs = <<>> THEN <<>>
  ELSE Ends(Head(xs), s, i, ci) \o EndsAlt(Tail(xs), s, i, ci)

\* x{lo,hi} of a compound x, from the offsets es reached after n iterations.
\* (The bodies quantified in PATTERNS match no empty string.)
EndsRep(r, s, es, ci, n) ==
  IF es = <<>> THEN <<>>
  ELSE LET stop == IF n >= r.lo THEN es ELSE <<>>
           next == IF r.hi = Inf \/ n < r.hi
                   THEN Dedup(EndsFrom(r.x, s, es, ci)) ELSE <<>>
           more == EndsRep(r, s, next, ci, n + 1)
       IN  IF r.lazy THEN stop \o more ELSE more \o stop

NoMatch == [found |-> FALSE, start |-> 0, end |-> 0]
MinOf(ns) == CHOOSE n \in ns : \A m \in ns : n <= m

\* the ends of the matches of r from each of the offsets from..Len(s)
EndsAll(r, s, from, ci) == [j \in from..Len(s) |-> Ends(r, s, j, ci)]

\* the leftmost offset with a match, and the end backtracking finds first there
FirstMatch(all) ==
  LET Pick(starts) ==
        IF starts = {} THEN NoMatch
        ELSE [found |-> TRUE, start |-> MinOf(starts), end |-> all[MinOf(starts)][1]]
  IN  Pick({j \in DOMAIN all : all[j] # <<>>})

\* RegExp exec from offset `from`
Exec(r, s, from, ci) == FirstMatch(EndsAll(r, s, from, ci))

\* RegExp.prototype.test of a regex without the g flag
Test(r, s, ci) == Exec(r, s, 0, ci).found

\* txt.charAt(0).toUpperCase() + txt.substr(1).toLowerCase()
Capitalize(txt) ==
  IF txt = "" THEN "" ELSE UpperCh(Head(txt)) \o toLowerCase(Tail(txt))

\* String.prototype.replace from offset `from` on: [out, n] with out the
\* text from `from` on after the replacement and n the number of matches
\* replaced.  how is "all" (a g regex and a replacement string), "first" (no
\* g flag) or "title" (a g regex, the match replaced by its Capitalize).
\* ReplaceAt goes on once the next match m is known.
RECURSIVE ReplaceFrom(_, _, _, _, _, _)
ReplaceAt(r, s, from, ci, how, repl, m) ==
  IF ~m.found THEN [out |-> Drop(s, from), n |-> 0]
  ELSE LET next == IF m.end > m.start THEN m.end ELSE m.end + 1
           head == Slice(s, from, m.start)
                   \o (IF how = "title" THEN Capitalize(Slice(s, m.start, m.end)) ELSE repl)
           More(rest) == [out |-> head \o Slice(s, m.end, next) \o rest.out, n |-> rest.n + 1]
       IN  IF how = "first" THEN [out |-> head \o Drop(s, m.end), n |-> 1]
           ELSE More(ReplaceFrom(r, s, next, ci, how, repl))
ReplaceFrom(r, s, from, ci, how, repl) ==
  ReplaceAt(r, s, from, ci, how, repl, Exec(r, s, from, ci))

Replace(r, s, ci, how, repl) == ReplaceFrom(r, s, 0, ci, how, repl)
\* String.prototype.replace with a g regex
ReplaceAll(r, s, ci, repl) == Replace(r, s, ci, "all", repl).out
\* String.prototype.match with a g regex: the number of matches
MatchCount(r, s, ci) == Replace(r, s, ci, "all", "").n

\* A chain of replace() statements as data.  A step is one statement
\* clean = clean.replace(re, repl), followed by .trim() where the source has
\* it; kind names the counter the statement feeds when it changed the text.
Step(re, ci, how, repl, kind, trimmed) ==
  [re |-> re, ci |-> ci, how |-> how, repl |-> repl, kind |-> kind, trimmed |-> trimmed]

\* the state [out, kinds, ids] after one step: kinds are the redaction
\* kinds counted, ids the increments of idTokensRemoved
ApplyStep(step, st) ==
  LET After(text) ==
        [out |-> text,
         kinds |-> IF text # st.out /\ step.kind \notin {"", "id"}
                   THEN st.kinds \cup {step.kind} ELSE st.kinds,
         ids |-> IF text # st.out /\ step.kind = "id" THEN st.ids + 1 ELSE st.ids]
      Trimmed(text) == IF step.trimmed THEN trim(text) ELSE text
  IN  After(Trimmed(Replace(step.re, st.out, step.ci, step.how, step.repl).out))

\* the statements steps[k], steps[k + 1], ... run in their order from state st
RECURSIVE Pipeline(_, _, _)
Pipeline(steps, k, st) ==
  IF k > Len(steps) \/ st # st THEN st
  ELSE Pipeline(steps, k + 1, ApplyStep(steps[k], st))

(***************************************************************************)
(* PATTERNS (the module-level table of regular expressions)                *)
(***************************************************************************)
STATES == <<"NY", "CA", "TX", "FL", "IL", "PA", "OH", "GA", "NC", "MI", "NJ", "VA",
            "WA", "AZ", "MA", "TN", "IN", "MO", "MD", "WI", "CO", "MN", "SC", "AL",
            "LA", "KY", "OR", "OK", "CT", "UT", "IA", "NV", "AR", "MS", "KS", "NM",
            "NE", "WV", "ID", "HI", "NH", "ME", "RI", "MT", "DE", "SD", "ND", "AK",
            "DC", "VT", "WY">>

\* /^\d{4}-\d{2}-\d{2}$/
DATE_ISO == Cat(<<Bol, Rep(D, 4, 4), Lit("-"), Rep(D, 2, 2), Lit("-"), Rep(D, 2, 2), Eol>>)
\* /^\d{1,2}\/\d{1,2}\/\d{2,4}$/
DATE_US == Cat(<<Bol, Rep(D, 1, 2), Lit("/"), Rep(D, 1, 2), Lit("/"), Rep(D, 2, 4), Eol>>)
\* /^\d{1,2}[\.-]\d{1,2}[\.-]\d{2,4}$/
DATE_EU == Cat(<<Bol, Rep(D, 1, 2), Set({".", "-"}), Rep(D, 1, 2), Set({".", "-"}),
                 Rep(D, 2, 4), Eol>>)
\* /^-?[$£€¥]?\s?[\d,]+(\.\d+)?$/   (of the currency signs only $ is in Sigma)
MONEY == Cat(<<Bol, Opt(Lit("-")), Opt(Set({"$"})), Opt(S), Plus(Set(DigitSet \cup {","})),
               Opt(Cat(<<Lit("."), Plus(D)>>)), Eol>>)
\* /\b(?:\d[ -]*?){13,16}\b/g
PII_CREDIT_CARD == Cat(<<Wb, Rep(Cat(<<D, RepLazy(Set({" ", "-"}), 0, Inf)>>), 13, 16), Wb>>)
\* /\b\d{3}-\d{2}-\d{4}\b/g
PII_SSN == Cat(<<Wb, Rep(D, 3, 3), Lit("-"), Rep(D, 2, 2), Lit("-"), Rep(D, 4, 4), Wb>>)
\* /[\w\.-]+@[\w\.-]+\.\w+/g
PII_EMAIL == Cat(<<Plus(Set(WordSet \cup {".", "-"})), Lit("@"),
                   Plus(Set(WordSet \cup {".", "-"})), Lit("."), Plus(W)>>)
\* /(REF|TXN|ID|TRX)[:#]?\s*[A-Z0-9-]{6,}/gi
ID_LABELED == Cat(<<Words(<<"REF", "TXN", "ID", "TRX">>), Opt(Set({":", "#"})), Star(S),
                    Rep(Set(UpperSet \cup DigitSet \cup {"-"}), 6, Inf)>>)
\* /\b[A-F0-9]{10,}\b/g
ID_HEX == Cat(<<Wb, Rep(Set(CharsOf("ABCDEF") \cup DigitSet), 10, Inf), Wb>>)
\* /\b(Store|Shop|#)\s?\#?\d{3,}\b/gi
ID_STORE == Cat(<<Wb, Words(<<"Store", "Shop", "#">>), Opt(S), Opt(Lit("#")),
                  Rep(D, 3, Inf), Wb>>)
\* ID_PATTERNS with the i flag of each
ID_PATTERNS == << [re |-> ID_LABELED, ci |-> TRUE],
                  [re |-> ID_HEX, ci |-> FALSE],
                  [re |-> ID_STORE, ci |-> TRUE] >>
\* /^(SQ \*|PAYPAL \*|UBER \*|TST \*)/i
MERCHANT_PREFIXES == Cat(<<Bol, Words(<<"SQ *", "PAYPAL *", "UBER *", "TST *">>)>>)
\* /\b(?:\+?\d{1,2}[-.\s]?)?(?:\(\d{3}\)|\d{3})[-.\s]?\d{3}[-.\s]?\d{4}\b/g
PhoneSep == Opt(Set({"-", "."} \cup SpaceSet))
PII_PHONE == Cat(<<Wb, Opt(Cat(<<Opt(Lit("+")), Rep(D, 1, 2), PhoneSep>>)),
                   Alt(<<Cat(<<Lit("("), Rep(D, 3, 3), Lit(")")>>), Rep(D, 3, 3)>>),
                   PhoneSep, Rep(D, 3, 3), PhoneSep, Rep(D, 4, 4), Wb>>)
\* /\bhttps?:\/\/\S+|\bwww\.\S+/gi
PII_URL == Alt(<<Cat(<<Wb, Lit("http"), Opt(Lit("s")), Lit("://"), Plus(NonS)>>),
                 Cat(<<Wb, Lit("www."), Plus(NonS)>>)>>)
\* /\b\d{5}(?:-\d{4})?\b/g
PII_ZIP == Cat(<<Wb, Rep(D, 5, 5), Opt(Cat(<<Lit("-"), Rep(D, 4, 4)>>)), Wb>>)
\* /\b\d{1,6}\s+[A-Za-z0-9.'-]+(?:\s+[A-Za-z0-9.'-]+){0,4}\s+(st|street|ave|...|way)\b/gi
AddrWord == Plus(Set(LetterSet \cup DigitSet \cup {".", "'", "-"}))
PII_ADDRESS == Cat(<<Wb, Rep(D, 1, 6), Plus(S), AddrWord,
                     Rep(Cat(<<Plus(S), AddrWord>>), 0, 4), Plus(S),
                     Words(<<"st", "street", "ave", "avenue", "rd", "road", "blvd",
                             "boulevard", "ln", "lane", "dr", "drive", "ct", "court",
                             "pl", "place", "way">>), Wb>>)
\* /\b(_[A-Z])\b/g
NOISE_TOKENS == Cat(<<Wb, Lit("_"), Set(UpperSet), Wb>>)
\* /\b(NY|CA|...|WY)\b|(\s(USA|US|CAN|UK)\s?$)/g
LOCATIONS == Alt(<<Cat(<<Wb, Words(STATES), Wb>>),
                   Cat(<<S, Words(<<"USA", "US", "CAN", "UK">>), Opt(S), Eol>>)>>)
\* /\b([A-Z][a-z]+ [A-Z][a-z]+)\b/g
NAMES == Cat(<<Wb, Set(UpperSet), Plus(Set(LowerSet)), Lit(" "), Set(UpperSet),
               Plus(Set(LowerSet)), Wb>>)
\* /\b(debit|credit|dr|cr|withdrawal|deposit|purchase|payment|fee|refund|reversal)\b/i
TYPE_VALUES == Cat(<<Wb, Words(<<"debit", "credit", "dr", "cr", "withdrawal", "deposit",
                                 "purchase", "payment", "fee", "refund", "reversal">>), Wb>>)

(***************************************************************************)
(* AnonymizerOptions, the removal report, and the text pipeline            *)
(***************************************************************************)
\* the defaults of the constructor, with the given custom terms
DefaultOptions(terms) ==
  [maskPii |-> TRUE, scrubContacts |-> FALSE, fuzzLocation |-> FALSE,
   cleanMetadata |-> FALSE, ultraClean |-> FALSE, customRemoveTerms |-> terms]

RedactionKinds == {"card", "ssn", "email", "phone", "url", "address", "zip", "location"}

\* a fresh RemovalReport; a redaction kind that is absent counts 0
NewReport ==
  [redactions |-> [k \in RedactionKinds |-> 0], idTokensRemoved |-> 0,
   merchantNormalized |-> 0, customRemoved |-> 0]

\* (this.options.customRemoveTerms ?? []).map(t => (t ?? '').trim()).filter(Boolean)
RECURSIVE TrimmedTerms(_)
TrimmedTerms(ts) ==
  IF ts = <<>> THEN <<>>
  ELSE (IF trim(Head(ts)) = "" THEN <<>> ELSE <<trim(Head(ts))>>) \o TrimmedTerms(Tail(ts))

\* one term of the loop of applyCustomRemovals on [out, n], n the matches
\* removed so far; new RegExp(escapeRegExp(term), 'gi') is the literal
\* term, case-insensitive
RemoveTerm(term, st) ==
  LET Removed(rep) == [out |-> rep.out, n |-> st.n + rep.n]
  IN  Removed(Replace(Lit(term), st.out, TRUE, "all", ""))

RECURSIVE RemoveTerms(_, _, _)
RemoveTerms(terms, k, st) ==
  IF k > Len(terms) \/ st # st THEN st
  ELSE RemoveTerms(terms, k + 1, RemoveTerm(terms[k], st))

\* normalisation of whitespace: s.replace(/\s+/g, ' ').trim()
CollapseSpaces(s) == trim(ReplaceAll(Plus(S), s, FALSE, " "))

\* applyCustomRemovals(input, report): [out, n], n the increment of customRemoved
applyCustomRemovals(input, opts) ==
  LET Collapsed(r) == [out |-> CollapseSpaces(r.out), n |-> r.n]
  IN  IF TrimmedTerms(opts.customRemoveTerms) = <<>> \/ input = ""
      THEN [out |-> input, n |-> 0]
      ELSE Collapsed(RemoveTerms(TrimmedTerms(opts.customRemoveTerms), 1,
                                 [out |-> input, n |-> 0]))

\* the statements of sanitizeDescription after the custom removals
MaskSteps ==
  <<Step(PII_CREDIT_CARD, FALSE, "all", "****", "card", FALSE),
    Step(PII_SSN, FALSE, "all", "[SSN]", "ssn", FALSE),
    Step(PII_EMAIL, FALSE, "all", "[EMAIL]", "email", FALSE),
    Step(PII_PHONE, FALSE, "all", "[PHONE]", "phone", FALSE),
    Step(PII_URL, TRUE, "all", "[URL]", "url", FALSE),
    Step(PII_ADDRESS, TRUE, "all", "[ADDRESS]", "address", FALSE),
    Step(PII_ZIP, FALSE, "all", "[ZIP]", "zip", FALSE)>>
IdSteps == [p \in 1..Len(ID_PATTERNS) |->
              Step(ID_PATTERNS[p].re, ID_PATTERNS[p].ci, "all", "", "id", FALSE)]
NoiseSteps ==
  <<Step(NOISE_TOKENS, FALSE, "all", "", "", FALSE),
    Step(Plus(Set({"_", "/", "\\"})), FALSE, "all", " ", "", FALSE),
    Step(Plus(Set({"|"})), FALSE, "all", " ", "", FALSE),
    Step(Plus(S), FALSE, "all", " ", "", TRUE),
    Step(MERCHANT_PREFIXES, TRUE, "first", "", "", FALSE),
    \* /\w\S*/g to title case, then trim()
    Step(Cat(<<W, Star(NonS)>>), FALSE, "title", "", "", TRUE)>>
SanitizeSteps(opts) ==
  (IF opts.maskPii THEN MaskSteps ELSE <<>>)
  \o IdSteps
  \o (IF opts.scrubContacts THEN <<Step(NAMES, FALSE, "all", "Individual", "", FALSE)>> ELSE <<>>)
  \o (IF opts.fuzzLocation THEN <<Step(LOCATIONS, FALSE, "all", " [LOC]", "location", FALSE)>>
      ELSE <<>>)
  \o NoiseSteps

\* sanitizeDescription(raw, report): [out, kinds, ids, custom], where kinds
\* are the redaction kinds counted once each, ids the increments of
\* idTokensRemoved and custom those of customRemoved
sanitizeDescription(raw, opts) ==
  LET Done(c0, st) == [out |-> st.out, kinds |-> st.kinds, ids |-> st.ids, custom |-> c0.n]
      After(c0) == Done(c0, Pipeline(SanitizeSteps(opts), 1,
                                     [out |-> c0.out, kinds |-> {}, ids |-> 0]))
  IN  IF raw = "" THEN [out |-> "", kinds |-> {}, ids |-> 0, custom |-> 0]
      ELSE After(applyCustomRemovals(trim(raw), opts))

\* [:\-\s]*
RailTail == Star(Set({":", "-"} \cup SpaceSet))
\* /^(pos|purchase|debit|credit|card|visa|mastercard|mc|amex)\b[:\-\s]*/i
MODE_PREFIX == Cat(<<Bol, Words(<<"pos", "purchase", "debit", "credit", "card", "visa",
                                  "mastercard", "mc", "amex">>), Wb, RailTail>>)
\* /^(ach|wire|zelle|venmo|cash app|paypal)\b[:\-\s]*/i
RAIL_PREFIX == Cat(<<Bol, Words(<<"ach", "wire", "zelle", "venmo", "cash app", "paypal">>),
                     Wb, RailTail>>)
\* /^(online transfer|mobile deposit|direct deposit)\b[:\-\s]*/i
DEPOSIT_PREFIX == Cat(<<Bol, Words(<<"online transfer", "mobile deposit", "direct deposit">>),
                        Wb, RailTail>>)
\* /\b(DES:|ID:|INDN:|CO:|PPD|WEB|CCD|ARC|EFT|CTX|POP|RCK|TEL|TRX)\b/gi
ACH_CODES == Cat(<<Wb, Words(<<"DES:", "ID:", "INDN:", "CO:", "PPD", "WEB", "CCD", "ARC",
                               "EFT", "CTX", "POP", "RCK", "TEL", "TRX">>), Wb>>)
\* /\b\d{1,2}[\/-]\d{1,2}([\/-]\d{2,4})?\b/g
EMBEDDED_DATE == Cat(<<Wb, Rep(D, 1, 2), Set({"/", "-"}), Rep(D, 1, 2),
                       Opt(Cat(<<Set({"/", "-"}), Rep(D, 2, 4)>>)), Wb>>)
\* /\b\d+\.\d+\b/g
DECIMAL_NUMBER == Cat(<<Wb, Plus(D), Lit("."), Plus(D), Wb>>)
\* /\b(#|store|stn|branch|location|loc)\s*[-#:]?\s*\d+\b/gi
STORE_NUMBER == Cat(<<Wb, Words(<<"#", "store", "stn", "branch", "location", "loc">>),
                      Star(S), Opt(Set({"-", "#", ":"})), Star(S), Plus(D), Wb>>)
\* /\b\d{2,}\b/g
STANDALONE_NUMBER == Cat(<<Wb, Rep(D, 2, Inf), Wb>>)
\* \s*\[?phone\]?
PhoneTag == Cat(<<Star(S), Opt(Lit("[")), Lit("phone"), Opt(Lit("]"))>>)
TransferTo == Words(<<"ssv to", "tfr-to", "tfr to", "transfer to">>)
TransferFrom == Words(<<"ssv from", "tfr-fr", "tfr from", "transfer from">>)
\* /\b(ssv to|tfr-to|tfr to|transfer to)\s*\[?phone\]?/gi
TO_PHONE == Cat(<<Wb, TransferTo, PhoneTag>>)
\* /\b(ssv from|tfr-fr|tfr from|transfer from)\s*\[?phone\]?/gi
FROM_PHONE == Cat(<<Wb, TransferFrom, PhoneTag>>)
\* /\b(ssv to|tfr-to|tfr to|transfer to)\b/gi
TO_BARE == Cat(<<Wb, TransferTo, Wb>>)
\* /\b(ssv from|tfr-fr|tfr from|transfer from)\b/gi
FROM_BARE == Cat(<<Wb, TransferFrom, Wb>>)
\* /\b(ssv|tfr)[\s-]*(to|from)?\b/gi
TFR_ANY == Cat(<<Wb, Words(<<"ssv", "tfr">>), Star(Set(SpaceSet \cup {"-"})),
                 Opt(Words(<<"to", "from">>)), Wb>>)
\* /\b[A-Z]\b/g
SINGLE_LETTER == Cat(<<Wb, Set(UpperSet), Wb>>)
\* /\b(NY|CA|...|WY)\b\s*$/gi
TRAILING_STATE == Cat(<<Wb, Words(STATES), Wb, Star(S), Eol>>)
\* /\b(inc|llc|ltd|corp|company|co\.?)\b/gi
LEGAL_SUFFIX == Cat(<<Wb, Alt(<<Words(<<"inc", "llc", "ltd", "corp", "company">>),
                                Cat(<<Lit("co"), Opt(Lit("."))>>)>>), Wb>>)
\* /[^\w\s&'.-]+/g
OTHER_PUNCT == Plus(NotSet(WordSet \cup SpaceSet \cup {"&", "'", ".", "-"}))

\* the statements of normalizeMerchant after the custom removals
MerchantSteps ==
  <<Step(MODE_PREFIX, TRUE, "first", "", "", FALSE),
    Step(RAIL_PREFIX, TRUE, "first", "", "", FALSE),
    Step(DEPOSIT_PREFIX, TRUE, "first", "", "", FALSE),
    Step(ACH_CODES, TRUE, "all", "", "", FALSE),
    Step(EMBEDDED_DATE, FALSE, "all", "", "", FALSE),
    Step(DECIMAL_NUMBER, FALSE, "all", "", "", FALSE),
    Step(STORE_NUMBER, TRUE, "all", "", "", FALSE),
    Step(STANDALONE_NUMBER, FALSE, "all", "", "", FALSE),
    Step(TO_PHONE, TRUE, "all", "Mobile Payment", "", FALSE),
    Step(FROM_PHONE, TRUE, "all", "Mobile Transfer", "", FALSE),
    Step(TO_BARE, TRUE, "all", "Payment", "", FALSE),
    Step(FROM_BARE, TRUE, "all", "Incoming Transfer", "", FALSE),
    Step(TFR_ANY, TRUE, "all", "Transfer", "", FALSE),
    Step(SINGLE_LETTER, FALSE, "all", "", "", FALSE),
    Step(TRAILING_STATE, TRUE, "all", "", "", FALSE),
    Step(LEGAL_SUFFIX, TRUE, "all", "", "", FALSE),
    Step(OTHER_PUNCT, FALSE, "all", " ", "", FALSE),
    Step(Plus(Set({"-", "_"})), FALSE, "all", " ", "", FALSE),
    Step(Plus(S), FALSE, "all", " ", "", TRUE)>>
\* /\w\S*/g to title case, then trim()
MerchantTitle == <<Step(Cat(<<W, Star(NonS)>>), FALSE, "title", "", "", TRUE)>>

\* normalizeMerchant without the "Unknown" sentinel
normalizeMerchantNoSentinel(cleanedDesc, opts) ==
  LET After(c0) ==
        [out |-> Pipeline(MerchantTitle, 1,
                          Pipeline(MerchantSteps, 1,
                                   [out |-> c0.out, kinds |-> {}, ids |-> 0])).out,
         custom |-> c0.n, touched |-> FALSE]
  IN  IF cleanedDesc = "" THEN [out |-> "", custom |-> 0, touched |-> FALSE]
      ELSE After(applyCustomRemovals(cleanedDesc, opts))

\* normalizeMerchant(cleanedDesc, report): [out, custom, touched], where
\* custom are the increments of customRemoved and touched tells whether
\* merchantNormalized is incremented
normalizeMerchant(cleanedDesc, opts) ==
  LET Titled(c0, st) == [out |-> st.out, custom |-> c0.n,
                         touched |-> st.out # "" /\ st.out # cleanedDesc]
      Cleaned(c0, st) ==
        IF st.out = "" THEN [out |-> "Unknown", custom |-> c0.n, touched |-> FALSE]
        ELSE Titled(c0, Pipeline(MerchantTitle, 1, st))
      After(c0) == Cleaned(c0, Pipeline(MerchantSteps, 1,
                                        [out |-> c0.out, kinds |-> {}, ids |-> 0]))
  IN  IF cleanedDesc = "" THEN [out |-> "Unknown", custom |-> 0, touched |-> FALSE]
      ELSE After(applyCustomRemovals(cleanedDesc, opts))

(***************************************************************************)
(* JavaScript numbers (money in cents) and the value parsers               *)
(***************************************************************************)
NaN == [nan |-> TRUE, v |-> 0]
Num(v) == [nan |-> FALSE, v |-> v]
isNaN(a) == a.nan
\* a > b, a < b, a !== b, a === b, Math.abs(a), -a, a - b on numbers
Gt(a, b) == ~a.nan /\ ~b.nan /\ a.v > b.v
Lt(a, b) == ~a.nan /\ ~b.nan /\ a.v < b.v
StrictEq(a, b) == ~a.nan /\ ~b.nan /\ a.v = b.v
StrictNeq(a, b) == ~StrictEq(a, b)
AbsInt(n) == IF n < 0 THEN 0 - n ELSE n
Abs(a) == IF a.nan THEN NaN ELSE Num(AbsInt(a.v))
Neg(a) == IF a.nan THEN NaN ELSE Num(0 - a.v)
Sub(a, b) == IF a.nan \/ b.nan THEN NaN ELSE Num(a.v - b.v)
Zero == Num(0)

DigitVal(c) == CHOOSE i \in 0..9 : Ch(DIGITS, i + 1) = c
\* the value of a string of decimal digits
RECURSIVE DigitsVal(_, _)
DigitsVal(s, acc) == IF s = "" THEN acc ELSE DigitsVal(Tail(s), acc * 10 + DigitVal(Head(s)))
\* the length of the run of digits of s from offset i
DigitRun(s, i) == MaxOf({j \in 0..(Len(s) - i) : \A q \in 1..j : Ch(s, i + q) \in DigitSet})

\* parseFloat(s): leading white space is skipped, then the longest prefix that
\* is a signed decimal literal is read, in cents (the cells of the model carry
\* at most two fraction digits, further digits are cut, and no exponents).
parseFloat(str) ==
  LET s == trimStart(str)
      neg == startsWith(s, "-")
      b == IF neg \/ startsWith(s, "+") THEN 1 ELSE 0
      ni == DigitRun(s, b)
      dot == b + ni < Len(s) /\ Ch(s, b + ni + 1) = "."
      nf == IF dot THEN DigitRun(s, b + ni + 1) ELSE 0
      int == DigitsVal(Slice(s, b, b + ni), 0)
      frac == Slice(s, b + ni + 1, b + ni + 1 + Min2(nf, 2))
      cents == int * 100 + (IF Len(frac) = 1 THEN 10 * DigitsVal(frac, 0) ELSE DigitsVal(frac, 0))
  IN  IF ni = 0 /\ nf = 0 THEN NaN
      ELSE Num(IF neg THEN 0 - cents ELSE cents)

\* isNaN(parseFloat(val)): no number at the start, not even Infinity
isNaNFloat(val) ==
  /\ parseFloat(val).nan
  /\ ~Test(Cat(<<Bol, Opt(Set({"+", "-"})), Lit("Infinity")>>), trimStart(val), FALSE)

\* /[^\d\.\-,()]/g
NOT_CURRENCY_CHAR == NotSet(DigitSet \cup {".", "-", ",", "(", ")"})

cleanCurrency(val) ==
  LET Signed(clean) == IF startsWith(clean, "(") /\ endsWith(clean, ")")
                       THEN "-" \o ReplaceAll(Set({"(", ")"}), clean, FALSE, "")
                       ELSE clean
  IN  IF val = "" THEN Zero
      ELSE parseFloat(ReplaceAll(Set({","}),
                                 Signed(ReplaceAll(NOT_CURRENCY_CHAR, val, FALSE, "")),
                                 FALSE, ""))

\* the absent date (null); like null, the empty string is falsy
Null == ""

\* a date-only ISO string that every engine accepts: YYYY-MM-DD with month
\* 01..12 and day 01..28
IsoDateOk(val) ==
  /\ Test(DATE_ISO, val, FALSE)
  /\ DigitsVal(Slice(val, 5, 7), 0) \in 1..12
  /\ DigitsVal(Slice(val, 8, 10), 0) \in 1..28

\* !isNaN(Date.parse(val)).  Beyond the ISO format the parse is
\* implementation-defined: a "strict" engine accepts nothing else, a
\* "lenient" one also accepts plain numbers (as V8 reads "100" as a year).
\* Text without digits is a date on no engine.
Engines == {"strict", "lenient"}
LegacyDate(val, engine) == engine = "lenient" /\ Test(MONEY, val, FALSE)
DateParses(val, engine) == IsoDateOk(val) \/ LegacyDate(val, engine)

\* parseDateString(val): the ISO day, or Null.  A date-only ISO string is
\* read as UTC, so toISOString() gives the same day back; what a lenient
\* engine makes of a number depends on engine and time zone and is kept as
\* the marker "legacy".
parseDateString(val, engine) ==
  IF val = "" THEN Null
  ELSE IF IsoDateOk(val) THEN val
  ELSE IF LegacyDate(val, engine) THEN "legacy"
  ELSE Null

(***************************************************************************)
(* lib/dialect.ts                                                          *)
(* Column indices are 1-based; NoIdx stands for the source's -1.           *)
(***************************************************************************)
NoIdx == 0

\* the number of i in 1..n with P(i), and the sum of F(i) over them
CountTo(n, P(_)) == Cardinality({i \in 1..n : P(i)})
RECURSIVE SumSeq(_)
SumSeq(xs) == IF xs = <<>> THEN 0 ELSE Head(xs) + SumSeq(Tail(xs))
SumTo(n, F(_)) == SumSeq([i \in 1..n |-> F(i)])

\* rows.slice(1, Math.min(rows.length, 25)): the sampled data rows
SampleLimit == 25
SampleRows(rows) == SubSeq(rows, 2, Min2(Len(rows), SampleLimit))

\* TYPE_TOKENS: /^(debit|db|dr|withdrawal|withdraw|payment|purchase|pos|fee)$/i
\* and /^(credit|cr|deposit|refund|reversal|reimb(ursement)?)$/i
EXPENSE_TOKEN == Cat(<<Bol, Words(<<"debit", "db", "dr", "withdrawal", "withdraw", "payment",
                                    "purchase", "pos", "fee">>), Eol>>)
INCOME_TOKEN == Cat(<<Bol, Alt(<<Words(<<"credit", "cr", "deposit", "refund", "reversal">>),
                                 Cat(<<Lit("reimb"), Opt(Lit("ursement"))>>)>>), Eol>>)
TYPE_TOKENS == << [token |-> EXPENSE_TOKEN, kind |-> "expense"],
                  [token |-> INCOME_TOKEN, kind |-> "income"] >>

\* h.trim().toLowerCase().replace(/\s+/g, ' ')
normalizeHeaders(headers) ==
  [j \in 1..Len(headers) |-> ReplaceAll(Plus(S), toLowerCase(trim(headers[j])), FALSE, " ")]

\* normalized headers, stripped of all but [a-z0-9 ], joined by '|'
signatureFromHeaders(headers) ==
  LET Stripped(n) ==
        [j \in 1..Len(n) |-> ReplaceAll(NotSet(LowerSet \cup DigitSet \cup {" "}), n[j], FALSE, "")]
  IN  join(Stripped(normalizeHeaders(headers)), "|")

\* dateValues.filter(Boolean)
Truthy(xs) == SelectSeq(xs, LAMBDA d : d # Null)

MinDatesForOrder == 3
\* inferRowOrderFromDates with the comparison of its last line inverted
inferRowOrderInverted(dateValues) ==
  LET isoDates == Truthy(dateValues)
      asc == CountTo(Len(isoDates), LAMBDA i : i > 1 /\ StrLess(isoDates[i - 1], isoDates[i]))
      desc == CountTo(Len(isoDates), LAMBDA i : i > 1 /\ StrLess(isoDates[i], isoDates[i - 1]))
  IN  IF Len(isoDates) < MinDatesForOrder THEN "unknown"
      ELSE IF asc = 0 /\ desc = 0 THEN "unknown"
      ELSE IF asc >= desc THEN "desc" ELSE "asc"

inferRowOrderFromDates(dateValues) ==
  LET isoDates == Truthy(dateValues)
      asc == CountTo(Len(isoDates), LAMBDA i : i > 1 /\ StrLess(isoDates[i - 1], isoDates[i]))
      desc == CountTo(Len(isoDates), LAMBDA i : i > 1 /\ StrLess(isoDates[i], isoDates[i - 1]))
  IN  IF Len(isoDates) < MinDatesForOrder THEN "unknown"
      ELSE IF asc = 0 /\ desc = 0 THEN "unknown"
      ELSE IF asc >= desc THEN "asc" ELSE "desc"

\* the score detectTypeColumn gives one cell of a column
StrongTypeScore == 3
TypeCellScore(cell) ==
  LET raw == trim(cell)
      val == toLowerCase(raw)
  IN  IF raw = "" THEN 0
      ELSE (IF \E t \in 1..Len(TYPE_TOKENS) : Test(TYPE_TOKENS[t].token, val, TRUE)
            THEN StrongTypeScore ELSE 0)
           + (IF Test(Lit("debit"), raw, TRUE) THEN 1 ELSE 0)
           + (IF Test(Lit("credit"), raw, TRUE) THEN 1 ELSE 0)

TypeColumnScore(rows, c) ==
  LET sampleRows == SampleRows(rows)
  IN  SumTo(Len(sampleRows), LAMBDA r : TypeCellScore(sampleRows[r][c]))

\* detectTypeColumn(rows): the index of the type column or NoIdx (null).
\* The first column with the highest score wins; it must score at least 6.
\* (The value-to-direction mapping the source also returns is read nowhere.)
MinTypeScore == 6
BestTypeColumn(scores) ==
  LET best == {c \in 1..Len(scores) :
                 /\ scores[c] > 0
                 /\ \A o \in 1..Len(scores) :
                      scores[o] < scores[c] \/ (scores[o] = scores[c] /\ o >= c)}
  IN  IF best = {} THEN NoIdx
      ELSE IF scores[CHOOSE c \in best : TRUE] < MinTypeScore THEN NoIdx
      ELSE CHOOSE c \in best : TRUE
detectTypeColumn(rows) ==
  IF Len(rows) < 2 THEN NoIdx
  ELSE BestTypeColumn([c \in 1..Len(rows[1]) |-> TypeColumnScore(rows, c)])

\* mapTypeToDirection(rawType): "income", "expense" or Null
mapTypeToDirection(rawType) ==
  LET val == trim(rawType)
  IN  IF val = "" THEN Null
      ELSE IF Test(EXPENSE_TOKEN, val, TRUE) THEN "expense"
      ELSE IF Test(INCOME_TOKEN, val, TRUE) THEN "income"
      ELSE IF Test(Words(<<"debit", "withdraw", "payment", "purchase", "fee">>), val, TRUE)
           THEN "expense"
      ELSE IF Test(Words(<<"credit", "deposit", "refund", "reversal", "reimb">>), val, TRUE)
           THEN "income"
      ELSE Null

\* chooseBalanceOrientation(balances, amounts, tolerance): the orientation
\* and its match rate as the fraction [n, d] (0/1 when nothing is compared).
\* balances and amounts are numbers in cents, tolerance is in cents.
ToleranceCents == 5
chooseBalanceOrientation(balances, amounts, tolerance) ==
  LET Amt(i) == IF i <= Len(amounts) THEN Abs(amounts[i]) ELSE Zero
      \* if (!amt) continue: 0 and NaN are skipped
      Compared(i) == i > 1 /\ ~(Amt(i).nan \/ Amt(i).v = 0)
      Near(d, a) == ~d.nan /\ AbsInt(Abs(d).v - a.v) <= tolerance
      forwardMatches == CountTo(Len(balances), LAMBDA i :
                          Compared(i) /\ Near(Sub(balances[i], balances[i - 1]), Amt(i)))
      reverseMatches == CountTo(Len(balances), LAMBDA i :
                          Compared(i) /\ Near(Sub(balances[i - 1], balances[i]), Amt(i)))
      comparisons == CountTo(Len(balances), Compared)
  IN  IF comparisons = 0 THEN [orientation |-> "forward", matchRate |-> [n |-> 0, d |-> 1]]
      ELSE IF forwardMatches >= reverseMatches
           THEN [orientation |-> "forward", matchRate |-> [n |-> forwardMatches, d |-> comparisons]]
           ELSE [orientation |-> "reverse", matchRate |-> [n |-> reverseMatches, d |-> comparisons]]

\* inferDirectionDecision(args); confidence is the fraction [n, d]:
\* 1.0, 0.95, 0.9, min(0.6 + rate * 0.4, 0.95), 0.3.  balanceMatchRate is a
\* fraction, or undefined (hasRate = FALSE), which counts as 0.
Frac(n, d) == [n |-> n, d |-> d]
inferDirectionDecision(hasSplit, hasType, hasSignedAmount, hasBalance, rowOrder, hasRate, rate) ==
  IF hasSplit THEN [strategy |-> "split", order |-> rowOrder, confidence |-> Frac(100, 100)]
  ELSE IF hasType THEN [strategy |-> "type", order |-> rowOrder, confidence |-> Frac(95, 100)]
  ELSE IF hasSignedAmount
       THEN [strategy |-> "signed", order |-> rowOrder, confidence |-> Frac(90, 100)]
  ELSE IF hasBalance
       THEN LET r == IF hasRate THEN rate ELSE Frac(0, 1)
                \* 0.6 + r * 0.4 = (60 d + 40 n) / (100 d), capped at 0.95
                raw == Frac(60 * r.d + 40 * r.n, 100 * r.d)
            IN  [strategy |-> "balance", order |-> rowOrder,
                 confidence |-> IF raw.n * 100 > 95 * raw.d THEN Frac(95, 100) ELSE raw]
  ELSE [strategy |-> "fallback", order |-> rowOrder, confidence |-> Frac(30, 100)]

(***************************************************************************)
(* The row shaper and the column classifier                                *)
(***************************************************************************)
RECURSIVE IntToStr(_)
IntToStr(n) == IF n < 10 THEN Ch(DIGITS, n + 1) ELSE IntToStr(n \div 10) \o Ch(DIGITS, (n % 10) + 1)

PadTo(row, n, F(_)) == [j \in 1..n |-> IF j <= Len(row) THEN row[j] ELSE F(j)]

\* the header and the data rows once the rows without a non-blank cell are gone
ShapeCleaned(cleaned) ==
  LET maxCols == MaxOf({Len(cleaned[j]) : j \in 1..Len(cleaned)})
      \* header[0].replace(/^﻿/, '')
      header == [j \in 1..Len(cleaned[1]) |->
                   IF j = 1 /\ startsWith(cleaned[1][1], BOM) THEN Drop(cleaned[1][1], 1)
                   ELSE cleaned[1][j]]
  IN  [j \in 1..Len(cleaned) |->
         IF j = 1 THEN PadTo(header, maxCols, LAMBDA n : "Column_" \o IntToStr(n))
         ELSE PadTo(cleaned[j], maxCols, LAMBDA n : "")]

\* shapeRows(rows): rows without a non-blank cell are left out, the BOM is
\* taken off the first header cell, the header grows by Column_<n> to the
\* widest row and the data rows are padded with ''
shapeRows(rows) ==
  LET Shaped(cleaned) == IF cleaned = <<>> THEN <<>> ELSE ShapeCleaned(cleaned)
  IN  Shaped(SelectSeq(rows, LAMBDA r : \E j \in 1..Len(r) : trim(r[j]) # ""))

\* the keys of typeScores in their order; reduce() keeps the later key on a tie
ScoreKeys == <<"date", "amount", "balance", "description", "debit", "credit", "metadata", "type">>

\* PATTERNS.ID_PATTERNS.some(p => { p.lastIndex = 0; return p.test(val); })
LooksLikeId(val) ==
  \E p \in 1..Len(ID_PATTERNS) : Test(ID_PATTERNS[p].re, val, ID_PATTERNS[p].ci)

\* the date check of the classifier on one cell
DateLike(val, engine) ==
  \/ \E re \in {DATE_ISO, DATE_US, DATE_EU} : Test(re, val, FALSE)
  \/ DateParses(val, engine)

\* what the loop over the sampled cells of a column finds in one cell
CellFacts(val, engine) ==
  LET Numeric(num) ==
        [numeric |-> ~isNaN(num), num |-> num, positive |-> Gt(num, Zero)]
      money == IF val # "" /\ Test(MONEY, val, FALSE) THEN cleanCurrency(val) ELSE NaN
  IN  [valid |-> val # "",
       dateLike |-> val # "" /\ DateLike(val, engine),
       money |-> Numeric(money),
       \* val.length > 5 && isNaN(parseFloat(val)) && !DATE_ISO.test(val)
       textLike |-> Len(val) > 5 /\ isNaNFloat(val) /\ ~Test(DATE_ISO, val, FALSE),
       idLike |-> val # "" /\ LooksLikeId(val),
       typeVal |-> val # "" /\ Test(TYPE_VALUES, val, TRUE)]

\* the counters of the loop over the sampled cells, from the facts of the cells
ColumnStats(facts) ==
  LET Count(P(_)) == Cardinality({r \in 1..Len(facts) : P(facts[r])})
      numeric == {r \in 1..Len(facts) : facts[r].money.numeric}
  IN  [sampleCount |-> Len(facts),
       validSamples |-> Count(LAMBDA f : f.valid),
       dateLikeCount |-> Count(LAMBDA f : f.dateLike),
       numericCount |-> Cardinality(numeric),
       numericVals |-> [j \in 1..Cardinality(numeric) |->
                          facts[CHOOSE r \in numeric :
                                  Cardinality({q \in numeric : q <= r}) = j].money.num.v],
       positiveCount |-> Count(LAMBDA f : f.money.positive),
       textLikeCount |-> Count(LAMBDA f : f.textLike),
       idLikeCount |-> Count(LAMBDA f : f.idLike),
       typeValCount |-> Count(LAMBDA f : f.typeVal)]

\* the continuity heuristic: the points the balance role gets when the
\* numbers of the column move little from row to row
Continuity(st) ==
  LET n == st.numericCount
      sampleN == IF st.sampleCount = 0 THEN 1 ELSE st.sampleCount
      sumAbs == SumTo(n, LAMBDA j : AbsInt(st.numericVals[j]))
      sumDelta == SumTo(n, LAMBDA j :
                        IF j = 1 THEN 0 ELSE AbsInt(st.numericVals[j] - st.numericVals[j - 1]))
      \* ratio < t/100 for ratio = meanAbsDelta / meanAbs, or 1 when meanAbs = 0
      RatioBelow(t) == IF sumAbs > 0 THEN sumDelta * n * 100 < t * sumAbs * (n - 1)
                       ELSE 100 < t
  IN  IF n >= 3
      THEN (IF RatioBelow(50) /\ st.validSamples * 100 >= 60 * sampleN THEN 2 ELSE 0)
           + (IF RatioBelow(25) /\ st.validSamples * 100 >= 70 * sampleN THEN 3 ELSE 0)
      ELSE 0

\* typeScores of column c after the header and the content heuristics
TypeScores(header, c, typeColHint, st) ==
  LET Has(w) == includes(header, w)
      sampleN == IF st.sampleCount = 0 THEN 1 ELSE st.sampleCount
      Dense(count, percent) == count * 100 >= percent * sampleN
      desc0 == (IF Has("desc") \/ Has("memo") \/ Has("particular") THEN 5 ELSE 0)
               + 2 * st.textLikeCount
               + (IF Dense(st.textLikeCount, 50) /\ ~Dense(st.idLikeCount, 20) THEN 2 ELSE 0)
  IN  [date |-> (IF Has("date") \/ Has("time") THEN 5 ELSE 0) + 3 * st.dateLikeCount,
       amount |-> st.numericCount + (IF Dense(st.numericCount, 70) THEN 2 ELSE 0)
                  + (IF Dense(st.numericCount, 85) THEN 2 ELSE 0),
       balance |-> (IF Has("bal") THEN 5 ELSE 0) + Continuity(st),
       description |-> IF Dense(st.idLikeCount, 40)
                       THEN (IF desc0 > 2 THEN desc0 - 2 ELSE 0) ELSE desc0,
       debit |-> (IF Has("debit") \/ Has("withdr") \/ Has("out") THEN 5 ELSE 0)
                 + (IF Has("debit") THEN 2 * st.positiveCount ELSE 0),
       credit |-> IF Has("credit") \/ Has("deposit") \/ Has("in") THEN 5 ELSE 0,
       metadata |-> (IF Has("id") \/ Has("ref") \/ Has("code") THEN 2 ELSE 0)
                    + 2 * st.idLikeCount,
       type |-> (IF Has("type") \/ Has("transaction type") \/ Has("tran type") THEN 5 ELSE 0)
                + (IF typeColHint # NoIdx /\ typeColHint = c THEN 6 ELSE 0)
                + 2 * st.typeValCount]

\* the role of column c from its scores, with the refinements of the source
ColumnTyped(header, c, colCount, st, typeScores, sampleValue) ==
  LET sampleN == IF st.sampleCount = 0 THEN 1 ELSE st.sampleCount
      maxScore == MaxOf({typeScores[ScoreKeys[j]] : j \in 1..Len(ScoreKeys)})
      \* keys.reduce((a, b) => typeScores[a] > typeScores[b] ? a : b): the last maximum
      byScore == ScoreKeys[MaxOf({j \in 1..Len(ScoreKeys) : typeScores[ScoreKeys[j]] = maxScore})]
      \* amount -> balance when the header says so and every sample is filled
      Refined(t) == IF t = "amount" /\ st.validSamples = st.sampleCount /\ includes(header, "bal")
                    THEN "balance" ELSE t
      \* the last column, at least half numeric and half non-empty, is the balance
      Forced(t) == IF c = colCount /\ st.numericCount * 100 >= 50 * sampleN
                      /\ st.validSamples * 100 >= 50 * sampleN
                   THEN "balance" ELSE t
      Debit(t) == IF t = "amount" /\ typeScores.debit > 2 THEN "debit" ELSE t
      Credit(t) == IF t = "amount" /\ typeScores.credit > 2 THEN "credit" ELSE t
      Result(t) ==
        [columnIndex |-> c, columnType |-> Credit(Debit(t)),
         confidence |-> IF maxScore >= st.validSamples * 2 + 5 THEN Frac(1, 1)
                        ELSE Frac(maxScore, st.validSamples * 2 + 5),
         sampleValue |-> sampleValue,
         \* numericCols.push(c)
         splitCandidate |-> t = "amount" /\ st.sampleCount - st.validSamples > 0]
  IN  Result(Forced(Refined(IF st.validSamples = 0 \/ maxScore = 0 THEN "unknown"
                            ELSE byScore)))

\* the body of the loop over the columns, up to analysis.push
AnalyzeColumn(rows, c, typeColHint, engine) ==
  LET Scored(st) ==
        ColumnTyped(toLowerCase(rows[1][c]), c, Len(rows[1]), st,
                    TypeScores(toLowerCase(rows[1][c]), c, typeColHint, st),
                    IF Len(rows) > 1 THEN rows[2][c] ELSE "")
      Cells(sampleRows) ==
        Scored(ColumnStats([r \in 1..Len(sampleRows) |-> CellFacts(sampleRows[r][c], engine)]))
  IN  Cells(SampleRows(rows))

\* the post-analysis of the split candidates numericCols
SplitPass(rows, analysis) ==
  LET sampleRows == SampleRows(rows)
      numericCols == SelectSeq([c \in 1..Len(analysis) |-> c],
                               LAMBDA c : analysis[c].splitCandidate)
      c1 == numericCols[1]
      c2 == numericCols[2]
      collision == \E r \in 1..Len(sampleRows) : sampleRows[r][c1] # "" /\ sampleRows[r][c2] # ""
      Filled(c) == CountTo(Len(sampleRows), LAMBDA r : sampleRows[r][c] # "")
      h1 == toLowerCase(rows[1][c1])
      c1Type == IF includes(h1, "dep") \/ includes(h1, "cr") THEN "credit"
                ELSE IF includes(h1, "with") \/ includes(h1, "dr") THEN "debit"
                ELSE IF Filled(c1) > Filled(c2) THEN "debit"
                ELSE "credit"
      Final(c) == IF Len(numericCols) >= 2 /\ ~collision
                  THEN (IF c = c1 THEN c1Type
                        ELSE IF c = c2 THEN (IF c1Type = "debit" THEN "credit" ELSE "debit")
                        ELSE analysis[c].columnType)
                  ELSE analysis[c].columnType
  IN  [c \in 1..Len(analysis) |->
         [columnIndex |-> c, columnType |-> Final(c),
          confidence |-> analysis[c].confidence, sampleValue |-> analysis[c].sampleValue]]

\* detectColumnsWithContext(rows): one ColumnAnalysis per column
detectColumnsWithContext(rows, engine) ==
  LET Columns(typeColHint) ==
        SplitPass(rows, [c \in 1..Len(rows[1]) |-> AnalyzeColumn(rows, c, typeColHint, engine)])
  IN  IF Len(rows) < 2 THEN <<>> ELSE Columns(detectTypeColumn(rows))

\* columnAnalysis.findIndex(c => c.columnType === role)
findIndex(columnAnalysis, role) ==
  LET hits == {c \in 1..Len(columnAnalysis) : columnAnalysis[c].columnType = role}
  IN  IF hits = {} THEN NoIdx ELSE MinOf(hits)

(***************************************************************************)
(* processRows                                                             *)
(* Balances and deltas are whole cents; the cells of the model are chosen  *)
(* so that no delta is exactly one cent, where the floating-point          *)
(* comparison with 0.01 depends on the operands.  cleanCurrency of a cell  *)
(* of the model is never infinite, so isFinite adds nothing to !isNaN.     *)
(* categorizeTransaction only reads its arguments and fills the category   *)
(* fields of a transaction, which are left out.                            *)
(***************************************************************************)
\* /(beginning balance|ending balance|...)/i
BALANCE_SUMMARY == Words(<<"beginning balance", "ending balance", "starting balance",
                           "balance forward", "opening balance", "closing balance">>)
looksLikeBalanceSummary(rawDesc) == Test(BALANCE_SUMMARY, rawDesc, TRUE)

\* [...xs].sort((a, b) => a - b)
SortNum(xs) ==
  LET rank(p) == Cardinality({q \in 1..Len(xs) : xs[q] < xs[p] \/ (xs[q] = xs[p] /\ q <= p)})
  IN  [k \in 1..Len(xs) |-> xs[CHOOSE p \in 1..Len(xs) : rank(p) = k]]

\* twice the median of xs (0 for the empty list)
median2(xs) ==
  LET Mid(sorted) == IF Len(xs) % 2 = 1 THEN 2 * sorted[(Len(xs) \div 2) + 1]
                     ELSE sorted[Len(xs) \div 2] + sorted[(Len(xs) \div 2) + 1]
  IN  IF Len(xs) = 0 THEN 0 ELSE Mid(SortNum(xs))

HistorySize == 15
OutlierFactor == 50
OutlierFloorCents == 250000
MinDeltaCents == 1

\* isImplausible without the summary vocabulary: recentMed > 0 &&
\* absDelta > recentMed * 50 && absDelta > 2500
IsOutlier(absDelta, recentAbsDeltas) ==
  LET Beyond(med2) == med2 > 0 /\ 2 * absDelta > med2 * OutlierFactor
  IN  absDelta > OutlierFloorCents /\ Beyond(median2(recentAbsDeltas))

\* the message of the error thrown for fewer than two rows
NotEnoughDataMessage ==
  "Not enough data to process. "
  \o "Please upload a file with at least a header row and one transaction row. "
  \o "This tool is designed for financial statements like bank exports, credit card statements, or transaction histories."

\* detectedTypes: `${c.columnType} (column ${c.columnIndex + 1})` of the
\* columns whose type is not 'unknown', joined with ', '
DetectedTypes(columnAnalysis) ==
  LET known == SelectSeq(columnAnalysis, LAMBDA c : c.columnType # "unknown")
  IN  join([k \in 1..Len(known) |->
              known[k].columnType \o " (column " \o IntToStr(known[k].columnIndex) \o ")"],
           ", ")

\* a message for the missing date column that does not say what is missing
NoDateMessageUnnamed(columnAnalysis) ==
  "This doesn't appear to be financial data. "
  \o "We detected: " \o DetectedTypes(columnAnalysis) \o ". "
  \o "Please upload a bank statement, credit card statement, or transaction history (CSV, XLSX, or PDF format)."

\* the message of the error thrown when no column is a date
NoDateMessage(columnAnalysis) ==
  LET Help(detectedTypes) ==
        IF detectedTypes # ""
        THEN "We detected: " \o detectedTypes
             \o ". However, financial data must include dates for each transaction."
        ELSE "We couldn't identify any standard financial data columns in your file."
  IN  "This doesn't appear to be financial data. "
      \o "We couldn't find a Date column. "
      \o Help(DetectedTypes(columnAnalysis)) \o " "
      \o "Financial data should have columns like: Date, Description, Amount (or Debit/Credit), and optionally Balance. "
      \o "Please upload a bank statement, credit card statement, or transaction history (CSV, XLSX, or PDF format)."

\* the message of the error thrown when no column holds money
NoMoneyMessage(columnAnalysis) ==
  LET Found(role) == \E c \in 1..Len(columnAnalysis) : columnAnalysis[c].columnType = role
      needs == "Financial statements need monetary values (amounts, debits/credits, or balances)."
      helpText ==
        IF Found("date") /\ Found("description")
        THEN "We found dates and descriptions, but couldn't find any monetary value columns. "
             \o needs
        ELSE IF Found("date")
        THEN "We found dates, but couldn't find descriptions or monetary values. " \o needs
        ELSE needs
  IN  "This doesn't appear to be financial data. "
      \o "We couldn't find any monetary value columns (Amount, Debit/Credit, or Balance). "
      \o helpText \o " "
      \o "Financial data should have columns like: Date, Description, Amount (or Debit/Credit), and optionally Balance. "
      \o "Please ensure your file includes transaction amounts in a clear column format."

\* the message of the fatal error named error
ErrorMessage(error, columnAnalysis) ==
  CASE error = "not_enough_data" -> NotEnoughDataMessage
    [] error = "no_date_column" -> NoDateMessage(columnAnalysis)
    [] error = "no_money_column" -> NoMoneyMessage(columnAnalysis)
    [] OTHER -> ""

\* what processRows throws: the kind of the error and the message of the Error
Thrown(c) ==
  [error |-> c.error, message |-> ErrorMessage(c.error, c.columnAnalysis),
   transactions |-> <<>>, metadata |-> <<>>]

\* the roles with one more fatal error, for a grid without a description
RolesNeedingDescription(shaped, engine, columnAnalysis) ==
  [rows |-> shaped,
   error |-> IF Len(shaped) < 2 THEN "not_enough_data"
             ELSE IF findIndex(columnAnalysis, "date") = NoIdx THEN "no_date_column"
             ELSE IF findIndex(columnAnalysis, "description") = NoIdx
                  THEN "no_description_column"
             ELSE "no_money_column",
   columnAnalysis |-> columnAnalysis,
   dateIdx |-> findIndex(columnAnalysis, "date"),
   descIdx |-> findIndex(columnAnalysis, "description"),
   amountIdx |-> NoIdx, debitIdx |-> NoIdx, creditIdx |-> NoIdx, balanceIdx |-> NoIdx,
   typeIdx |-> NoIdx, rowOrder |-> "unknown"]

\* the role indices, the fatal error thrown (if any) and the row order
Roles(shaped, engine, columnAnalysis) ==
  LET Idx(role) == findIndex(columnAnalysis, role)
      error == IF Len(shaped) < 2 THEN "not_enough_data"
               ELSE IF Idx("date") = NoIdx THEN "no_date_column"
               ELSE IF Idx("amount") = NoIdx /\ Idx("debit") = NoIdx
                       /\ Idx("credit") = NoIdx /\ Idx("balance") = NoIdx
                    THEN "no_money_column"
               ELSE "none"
      Order(fails) ==
        IF fails THEN "unknown"
        ELSE inferRowOrderFromDates([r \in 1..(Len(shaped) - 1) |->
                                       parseDateString(shaped[r + 1][Idx("date")], engine)])
  IN  [rows |-> shaped, error |-> error, columnAnalysis |-> columnAnalysis,
       dateIdx |-> Idx("date"), descIdx |-> Idx("description"), amountIdx |-> Idx("amount"),
       debitIdx |-> Idx("debit"), creditIdx |-> Idx("credit"),
       balanceIdx |-> Idx("balance"), typeIdx |-> Idx("type"),
       rowOrder |-> Order(error # "none")]

\* processRows classifying the header and the first data row alone
PrepareFirstRowOnly(rows, engine) ==
  LET Analysed(shaped) ==
        Roles(shaped, engine,
              detectColumnsWithContext(SubSeq(shaped, 1, Min2(2, Len(shaped))), engine))
  IN  Analysed(shapeRows(rows))

\* processRows before the loop: the shaped grid and what Roles finds in it
Prepare(rows, engine) ==
  LET Analysed(shaped) == Roles(shaped, engine, detectColumnsWithContext(shaped, engine))
  IN  Analysed(shapeRows(rows))

\* the locals of processRows before the loop; lastValidBalance is <<>> for null
LoopStart ==
  [transactions |-> <<>>, skipSummary |-> [bad_date |-> 0, suspect_balance_row |-> 0],
   removalReport |-> NewReport, lastValidBalance |-> <<>>, recentAbsDeltas |-> <<>>,
   balancesForCorrelation |-> <<>>, amountsForCorrelation |-> <<>>]

\* the removal report after sanitizeDescription and normalizeMerchant of one row
Reported(report, clean, merch) ==
  [redactions |-> [k \in RedactionKinds |->
                     report.redactions[k] + (IF k \in clean.kinds THEN 1 ELSE 0)],
   idTokensRemoved |-> report.idTokensRemoved + clean.ids,
   merchantNormalized |-> report.merchantNormalized + (IF merch.touched THEN 1 ELSE 0),
   customRemoved |-> report.customRemoved + clean.custom + merch.custom]

\* the balance movement without the negation for newest-first files
BalanceChangeForward(rowOrder, last, current) == current - last

\* delta: the difference to the previous valid balance in file order,
\* negated when the rows are newest first
BalanceChange(rowOrder, last, current) ==
  IF rowOrder = "desc" THEN 0 - (current - last) ELSE current - last

\* the balance engine on a row whose balance cell reads currentBal:
\* [finalAmount, inference, suspect, lastValidBalance, recentAbsDeltas]
BalanceEngine(rowOrder, l, currentBal, isSummary) ==
  LET delta == BalanceChange(rowOrder, l.lastValidBalance[1], currentBal.v)
      none == [finalAmount |-> Zero, inference |-> "fallback", suspect |-> FALSE,
               lastValidBalance |-> l.lastValidBalance, recentAbsDeltas |-> l.recentAbsDeltas]
      Pushed(deltas) == IF Len(deltas) > HistorySize THEN Tail(deltas) ELSE deltas
  IN  IF isNaN(currentBal) THEN none
      ELSE IF l.lastValidBalance = <<>>
           THEN [none EXCEPT !.lastValidBalance = <<currentBal.v>>]
      ELSE IF isSummary \/ IsOutlier(AbsInt(delta), l.recentAbsDeltas)
           THEN [none EXCEPT !.suspect = TRUE, !.lastValidBalance = <<currentBal.v>>]
      ELSE IF AbsInt(delta) > MinDeltaCents
           THEN [finalAmount |-> Num(delta), inference |-> "derived_from_balance",
                 suspect |-> FALSE, lastValidBalance |-> <<currentBal.v>>,
                 recentAbsDeltas |-> Pushed(Append(l.recentAbsDeltas, AbsInt(delta)))]
      ELSE [none EXCEPT !.lastValidBalance = <<currentBal.v>>]

BalanceDelta(c, l, row, rawDesc) ==
  IF c.balanceIdx = NoIdx
  THEN [finalAmount |-> Zero, inference |-> "fallback", suspect |-> FALSE,
        lastValidBalance |-> l.lastValidBalance, recentAbsDeltas |-> l.recentAbsDeltas]
  ELSE BalanceEngine(c.rowOrder, l, cleanCurrency(row[c.balanceIdx]),
                     looksLikeBalanceSummary(rawDesc))

\* the split columns with the debit looked at before the credit
SplitAmountDebitFirst(debitVal, creditVal) ==
  IF Gt(debitVal, Zero) THEN [finalAmount |-> Neg(debitVal), inference |-> "explicit"]
  ELSE IF Gt(creditVal, Zero) THEN [finalAmount |-> creditVal, inference |-> "explicit"]
  ELSE [finalAmount |-> Zero, inference |-> "fallback"]

\* LOGIC 1, split columns: [finalAmount, inference]
SplitAmount(debitVal, creditVal) ==
  IF Gt(creditVal, Zero) THEN [finalAmount |-> creditVal, inference |-> "explicit"]
  ELSE IF Gt(debitVal, Zero) THEN [finalAmount |-> Neg(debitVal), inference |-> "explicit"]
  ELSE [finalAmount |-> Zero, inference |-> "fallback"]

\* LOGIC 2, a single amount column, with the direction the type cell gives
SingleAmount(amount, typeDir) ==
  IF typeDir # Null /\ StrictNeq(amount, Zero)
  THEN [finalAmount |-> IF typeDir = "expense" THEN Neg(Abs(amount)) ELSE Abs(amount),
        inference |-> "explicit"]
  ELSE [finalAmount |-> amount,
        inference |-> IF Lt(amount, Zero) \/ Gt(amount, Zero) THEN "explicit" ELSE "fallback"]

\* the explicit signals, used when the balance gave no amount
ExplicitAmount(c, row) ==
  IF c.debitIdx # NoIdx /\ c.creditIdx # NoIdx
  THEN SplitAmount(Abs(cleanCurrency(row[c.debitIdx])), Abs(cleanCurrency(row[c.creditIdx])))
  ELSE IF c.amountIdx # NoIdx
  THEN SingleAmount(cleanCurrency(row[c.amountIdx]),
                    IF c.typeIdx # NoIdx THEN mapTypeToDirection(row[c.typeIdx]) ELSE Null)
  ELSE [finalAmount |-> Zero, inference |-> "fallback"]

\* one iteration of the loop over the data rows, on the locals l
ProcessRowStep(c, l, row, opts, engine) ==
  LET rawDesc == IF c.descIdx # NoIdx THEN row[c.descIdx] ELSE "Unknown"
      Emit(dateStr, clean, merch, bal, expl) ==
        [transactions |->
           IF StrictNeq(expl.finalAmount, Zero)
           THEN Append(l.transactions,
                       [date |-> dateStr, merchant |-> merch.out,
                        description |-> IF opts.ultraClean THEN merch.out ELSE clean.out,
                        amount |-> expl.finalAmount,
                        type |-> IF Gt(expl.finalAmount, Zero) THEN "income" ELSE "expense",
                        inferenceSource |-> expl.inference])
           ELSE l.transactions,
         skipSummary |-> IF bal.suspect
                         THEN [l.skipSummary EXCEPT !.suspect_balance_row = @ + 1]
                         ELSE l.skipSummary,
         removalReport |-> Reported(l.removalReport, clean, merch),
         lastValidBalance |-> bal.lastValidBalance,
         recentAbsDeltas |-> bal.recentAbsDeltas,
         balancesForCorrelation |->
           IF StrictEq(expl.finalAmount, Zero) THEN l.balancesForCorrelation
           ELSE Append(l.balancesForCorrelation,
                       IF c.balanceIdx # NoIdx THEN cleanCurrency(row[c.balanceIdx]) ELSE Zero),
         amountsForCorrelation |->
           IF StrictNeq(expl.finalAmount, Zero)
           THEN Append(l.amountsForCorrelation, expl.finalAmount)
           ELSE l.amountsForCorrelation]
      Amount(dateStr, clean, merch, bal) ==
        Emit(dateStr, clean, merch, bal,
             IF StrictEq(bal.finalAmount, Zero) THEN ExplicitAmount(c, row)
             ELSE [finalAmount |-> bal.finalAmount, inference |-> bal.inference])
      Merchant(dateStr, clean) ==
        Amount(dateStr, clean, normalizeMerchant(clean.out, opts), BalanceDelta(c, l, row, rawDesc))
      Dated(dateStr) ==
        IF dateStr = Null THEN [l EXCEPT !.skipSummary.bad_date = @ + 1]
        ELSE Merchant(dateStr, sanitizeDescription(rawDesc, opts))
  IN  IF Len(row) < 2 THEN l ELSE Dated(parseDateString(row[c.dateIdx], engine))

\* the metadata computed after the loop
Metadata(c, l, opts) ==
  LET rows == c.rows
      hasSplit == c.debitIdx # NoIdx /\ c.creditIdx # NoIdx
      hasType == c.typeIdx # NoIdx /\ c.amountIdx # NoIdx
      hasSignedAmount ==
        /\ c.amountIdx # NoIdx
        /\ \E r \in 1..Len(SampleRows(rows)) :
             \/ includes(SampleRows(rows)[r][c.amountIdx], "-")
             \/ includes(SampleRows(rows)[r][c.amountIdx], "(")
      hasBalance == c.balanceIdx # NoIdx
      hasRate == hasBalance /\ Len(l.transactions) >= 2
      Data(P(_)) == CountTo(Len(rows) - 1, LAMBDA r : P(rows[r + 1]))
      Decided(decision) ==
        [originalRowCount |-> Len(rows),
         sanitizedRowCount |-> Len(l.transactions),
         detectedColumnsList |-> c.columnAnalysis,
         rowOrder |-> c.rowOrder,
         directionStrategy |-> IF hasBalance THEN "balance" ELSE decision.strategy,
         directionConfidence |-> decision.confidence,
         skipSummary |-> l.skipSummary,
         rowsWithBalance |-> IF hasBalance
                             THEN Data(LAMBDA r : ~isNaN(cleanCurrency(r[c.balanceIdx])))
                             ELSE 0,
         rowsWithAmount |-> IF c.amountIdx # NoIdx
                            THEN Data(LAMBDA r : r[c.amountIdx] # ""
                                                 /\ ~isNaN(cleanCurrency(r[c.amountIdx])))
                            ELSE 0,
         rowsWithDebitCredit |-> IF hasSplit
                                 THEN Data(LAMBDA r : trim(r[c.debitIdx]) # ""
                                                      \/ trim(r[c.creditIdx]) # "")
                                 ELSE 0,
         removalReport |-> l.removalReport,
         customTermsCount |-> Len(SelectSeq(opts.customRemoveTerms, LAMBDA t : t # "")),
         ultraCleanApplied |-> opts.ultraClean]
  IN  Decided(inferDirectionDecision(
                hasSplit, hasType, hasSignedAmount, hasBalance, c.rowOrder, hasRate,
                IF hasRate
                THEN chooseBalanceOrientation(l.balancesForCorrelation, l.amountsForCorrelation,
                                              ToleranceCents).matchRate
                ELSE Frac(0, 1)))

\* the loop from row r of c.rows on
RECURSIVE RunLoop(_, _, _, _, _)
RunLoop(c, l, r, opts, engine) ==
  IF r > Len(c.rows) \/ l # l THEN l
  ELSE RunLoop(c, ProcessRowStep(c, l, c.rows[r], opts, engine), r + 1, opts, engine)

\* what a whole call of processRows returns or throws
processRows(rows, opts, engine) ==
  LET Returned(c, l) == [error |-> "none", transactions |-> l.transactions,
                         metadata |-> Metadata(c, l, opts)]
      Prepared(c) == IF c.error # "none"
                     THEN Thrown(c)
                     ELSE Returned(c, RunLoop(c, LoopStart, 2, opts, engine))
  IN  Prepared(Prepare(rows, engine))

(***************************************************************************)
(* preflightRows, and the lastIndex of the module-level /g patterns        *)
(* PATTERNS is shared by every instance of the class.  A /g pattern keeps  *)
(* lastIndex between calls of test(); replace() with a /g pattern starts   *)
(* from 0 and leaves 0.  The ID patterns are reset before every test and   *)
(* NAMES and NOISE_TOKENS are only used with replace(), so the patterns    *)
(* whose lastIndex can be read are those of the eight redaction kinds.     *)
(***************************************************************************)
PatternOf(kind) ==
  CASE kind = "email" -> [re |-> PII_EMAIL, ci |-> FALSE]
    [] kind = "phone" -> [re |-> PII_PHONE, ci |-> FALSE]
    [] kind = "url" -> [re |-> PII_URL, ci |-> TRUE]
    [] kind = "card" -> [re |-> PII_CREDIT_CARD, ci |-> FALSE]
    [] kind = "ssn" -> [re |-> PII_SSN, ci |-> FALSE]
    [] kind = "address" -> [re |-> PII_ADDRESS, ci |-> TRUE]
    [] kind = "zip" -> [re |-> PII_ZIP, ci |-> FALSE]
    [] kind = "location" -> [re |-> LOCATIONS, ci |-> FALSE]

ZeroLastIndex == [k \in RedactionKinds |-> 0]

\* RegExp.prototype.test of a /g pattern whose lastIndex is li: [hit, lastIndex]
TestG(p, s, li) ==
  LET Outcome(m) == IF m.found THEN [hit |-> TRUE, lastIndex |-> m.end]
                    ELSE [hit |-> FALSE, lastIndex |-> 0]
  IN  IF li > Len(s) THEN [hit |-> FALSE, lastIndex |-> 0]
      ELSE Outcome(Exec(p.re, s, li, p.ci))

\* lastIndex after sanitizeDescription(raw): the replace() calls it makes
\* leave 0 in the patterns they use
AfterSanitize(raw, opts, li) ==
  IF raw = "" THEN li
  ELSE [k \in RedactionKinds |->
          IF k = "location" THEN (IF opts.fuzzLocation THEN 0 ELSE li[k])
          ELSE (IF opts.maskPii THEN 0 ELSE li[k])]

DefaultSampleSize == 100
MinSampleSize == 10
MaxExamples == 8
ExampleLen == 160

\* the planned counts before any row
PlanStart(opts) ==
  LET Keys(terms) == {terms[j] : j \in 1..Len(terms)}
  IN  [plannedRedactions |-> [k \in RedactionKinds |-> 0], plannedIdRemovals |-> 0,
       plannedMerchantNormalizations |-> 0,
       plannedCustomRemovals |-> [t \in Keys(TrimmedTerms(opts.customRemoveTerms)) |-> 0],
       examples |-> <<>>]

\* one iteration of the loop over the sample rows: [plan, lastIndex]
PreflightRowStep(columns, plan, li, r, opts) ==
  LET Raw(descIdx) == IF descIdx # NoIdx THEN r[descIdx] ELSE join(r, " ")
      Counted(descRaw, t, sanitized, merchant) ==
        [plan |->
           [plannedRedactions |-> [k \in RedactionKinds |->
                                     plan.plannedRedactions[k] + (IF t[k].hit THEN 1 ELSE 0)],
            plannedIdRemovals |->
              plan.plannedIdRemovals + (IF LooksLikeId(descRaw) THEN 1 ELSE 0),
            plannedMerchantNormalizations |->
              plan.plannedMerchantNormalizations
              + (IF merchant # "" /\ merchant # trim(sanitized) THEN 1 ELSE 0),
            plannedCustomRemovals |->
              [term \in DOMAIN plan.plannedCustomRemovals |->
                 plan.plannedCustomRemovals[term] + MatchCount(Lit(term), descRaw, TRUE)],
            examples |-> IF Len(plan.examples) < MaxExamples
                            /\ (sanitized # trim(descRaw) \/ merchant # sanitized)
                         THEN Append(plan.examples,
                                     [raw |-> Slice(trim(descRaw), 0, ExampleLen),
                                      sanitized |-> Slice(sanitized, 0, ExampleLen),
                                      merchant |-> merchant])
                         ELSE plan.examples],
         lastIndex |-> AfterSanitize(descRaw, opts, [k \in RedactionKinds |-> t[k].lastIndex])]
      Normalized(descRaw, t, sanitized) ==
        Counted(descRaw, t, sanitized, normalizeMerchant(sanitized, opts).out)
      Tested(descRaw) ==
        Normalized(descRaw, [k \in RedactionKinds |-> TestG(PatternOf(k), descRaw, li[k])],
                   sanitizeDescription(descRaw, opts).out)
  IN  Tested(Raw(findIndex(columns, "description")))

RECURSIVE PreflightLoop(_, _, _, _, _)
PreflightLoop(columns, st, sample, r, opts) ==
  IF r > Len(sample) \/ st # st THEN st
  ELSE PreflightLoop(columns, PreflightRowStep(columns, st.plan, st.lastIndex, sample[r], opts),
                     sample, r + 1, opts)

\* preflightRows(inputRows) called when the patterns' lastIndex is li:
\* [report, lastIndex]
preflightRows(inputRows, opts, engine, li) ==
  LET SampleSize(rows) ==
        IF Min2(DefaultSampleSize, Len(rows) - 1) > MinSampleSize
        THEN Min2(DefaultSampleSize, Len(rows) - 1) ELSE MinSampleSize
      Report(rows, sampleRows, columns, rowOrder, end) ==
        LET Idx(role) == findIndex(columns, role)
            hasSignedAmount ==
              /\ Idx("amount") # NoIdx
              /\ \E r \in 1..Len(sampleRows) : \/ includes(sampleRows[r][Idx("amount")], "-")
                                                \/ includes(sampleRows[r][Idx("amount")], "(")
        IN  [report |->
               [headerColumns |-> IF rows = <<>> THEN 0 ELSE Len(rows[1]),
                sampleRows |-> Len(sampleRows),
                detectedColumnsList |-> columns,
                rowOrder |-> rowOrder,
                likelyDirectionStrategy |->
                  IF Idx("balance") # NoIdx THEN "balance"
                  ELSE inferDirectionDecision(
                         Idx("debit") # NoIdx /\ Idx("credit") # NoIdx,
                         Idx("type") # NoIdx /\ Idx("amount") # NoIdx,
                         hasSignedAmount, Idx("balance") # NoIdx, rowOrder, FALSE,
                         Frac(0, 1)).strategy,
                plannedRedactions |-> end.plan.plannedRedactions,
                plannedIdRemovals |-> end.plan.plannedIdRemovals,
                plannedMerchantNormalizations |-> end.plan.plannedMerchantNormalizations,
                plannedCustomRemovals |-> end.plan.plannedCustomRemovals,
                examples |-> end.plan.examples],
             lastIndex |-> end.lastIndex]
      Classified(rows, sampleRows, columns) ==
        Report(rows, sampleRows, columns,
               inferRowOrderFromDates(
                 IF findIndex(columns, "date") # NoIdx
                 THEN [r \in 1..Len(sampleRows) |->
                         parseDateString(sampleRows[r][findIndex(columns, "date")], engine)]
                 ELSE <<>>),
               PreflightLoop(columns, [plan |-> PlanStart(opts), lastIndex |-> li],
                             sampleRows, 1, opts))
      Sampled(rows, sample) ==
        Classified(rows, IF sample = <<>> THEN <<>> ELSE Tail(sample),
                   detectColumnsWithContext(sample, engine))
      Shaped(rows) == Sampled(rows, SubSeq(rows, 1, Min2(Len(rows), 1 + SampleSize(rows))))
  IN  Shaped(shapeRows(inputRows))

(***************************************************************************)
(* Ingest (lib/ingest) and the header parser of scripts/app.ts             *)
(***************************************************************************)
\* detectFileKind: by the extension of the name, then by the MIME type
detectFileKind(file) ==
  LET name == toLowerCase(file.name)
  IN  IF endsWith(name, ".csv") THEN "csv"
      ELSE IF endsWith(name, ".xlsx") \/ endsWith(name, ".xls") THEN "xlsx"
      ELSE IF endsWith(name, ".pdf") THEN "pdf"
      ELSE IF file.type = "text/csv" THEN "csv"
      ELSE IF file.type = "application/pdf" THEN "pdf"
      ELSE "unknown"

\* the scanner state of the CSV parsers and the row closed at a line end or
\* at the end of the text
CsvStart == [rows |-> <<>>, currentRow |-> <<>>, currentVal |-> "", insideQuote |-> FALSE]
CsvEndRow(st) ==
  IF st.currentVal # "" \/ Len(st.currentRow) > 0
  THEN [st EXCEPT !.rows = Append(st.rows, Append(st.currentRow, trim(st.currentVal))),
                  !.currentRow = <<>>, !.currentVal = ""]
  ELSE st

\* rowsFromCsvText from the character at k (1-based) on
RECURSIVE CsvScan(_, _, _)
CsvScan(text, k, st) ==
  IF k > Len(text) THEN CsvEndRow(st).rows
  ELSE LET char == Ch(text, k)
           nextChar == IF k < Len(text) THEN Ch(text, k + 1) ELSE ""
       IN  IF char = "\""
           THEN IF st.insideQuote /\ nextChar = "\""
                THEN CsvScan(text, k + 2, [st EXCEPT !.currentVal = @ \o "\""])
                ELSE CsvScan(text, k + 1, [st EXCEPT !.insideQuote = ~@])
           ELSE IF char = "," /\ ~st.insideQuote
           THEN CsvScan(text, k + 1,
                        [st EXCEPT !.currentRow = Append(@, trim(st.currentVal)),
                                   !.currentVal = ""])
           ELSE IF char \in {"\n", "\r"} /\ ~st.insideQuote
           THEN CsvScan(text, IF char = "\r" /\ nextChar = "\n" THEN k + 2 ELSE k + 1,
                        CsvEndRow(st))
           ELSE CsvScan(text, k + 1, [st EXCEPT !.currentVal = @ \o char])

\* a scanner that drops the quotes and splits at every comma and line end
RECURSIVE CsvScanPlain(_, _, _)
CsvScanPlain(text, k, st) ==
  IF k > Len(text) THEN CsvEndRow(st).rows
  ELSE IF Ch(text, k) = "\"" THEN CsvScanPlain(text, k + 1, st)
  ELSE IF Ch(text, k) = ","
  THEN CsvScanPlain(text, k + 1, [st EXCEPT !.currentRow = Append(@, trim(st.currentVal)),
                                            !.currentVal = ""])
  ELSE IF Ch(text, k) \in {"\n", "\r"} THEN CsvScanPlain(text, k + 1, CsvEndRow(st))
  ELSE CsvScanPlain(text, k + 1, [st EXCEPT !.currentVal = @ \o Ch(text, k)])
rowsFromCsvTextPlain(text) == CsvScanPlain(text, 1, CsvStart)

rowsFromCsvText(text) == CsvScan(text, 1, CsvStart)

\* FinancialAnonymizer.parseCSV: the same scanner, written with else-if
parseCSV(text) == CsvScan(text, 1, CsvStart)

\* parseCSVHeaderRow from the character at k on: the cells up to the first
\* line end outside quotes
RECURSIVE HeaderScan(_, _, _)
HeaderScan(text, k, st) ==
  LET Done == IF st.currentVal # "" \/ Len(st.currentRow) > 0
              THEN Append(st.currentRow, trim(st.currentVal))
              ELSE st.currentRow
  IN  IF k > Len(text) THEN Done
      ELSE LET ch == Ch(text, k)
           IN  IF ch = "\""
               THEN IF st.insideQuote /\ k < Len(text) /\ Ch(text, k + 1) = "\""
                    THEN HeaderScan(text, k + 2, [st EXCEPT !.currentVal = @ \o "\""])
                    ELSE HeaderScan(text, k + 1, [st EXCEPT !.insideQuote = ~@])
               ELSE IF ~st.insideQuote /\ ch = ","
               THEN HeaderScan(text, k + 1,
                               [st EXCEPT !.currentRow = Append(@, trim(st.currentVal)),
                                          !.currentVal = ""])
               ELSE IF ~st.insideQuote /\ ch \in {"\n", "\r"} THEN Done
               ELSE HeaderScan(text, k + 1, [st EXCEPT !.currentVal = @ \o ch])

parseCSVHeaderRow(text) == HeaderScan(text, 1, CsvStart)

\* what runPreflightForFile writes into the textarea for a workbook or a PDF
LoadedHint(file, how, rows) ==
  "# Loaded " \o file.name \o "\n# " \o how \o " into " \o IntToStr(Len(rows)) \o " rows\n"

\* the localStorage key of runProcessing for a header row
DialectKey(headers) == "fa:dialect:" \o signatureFromHeaders(headers)

(***************************************************************************)
(* Grids.  The date of data row r is DateAt(r)                             *)
(***************************************************************************)
MaxRows == 2
DateAt(r) == "2024-01-0" \o IntToStr(r)
SeqsUpTo(pool, n) == UNION {[1..k -> pool] : k \in 1..n}

\* a grid with a single amount column that is not the last column
AmountCells == {"4.50", "-12.00", "0", "-"}
AmountRowKinds == [date : {"ok"}, amount : AmountCells] \cup {[date |-> "bad", amount |-> "4.50"]}
AmountGrid(kinds) ==
  <<<<"Date", "Amount", "Description">>>>
  \o [r \in 1..Len(kinds) |->
        <<IF kinds[r].date = "ok" THEN DateAt(r) ELSE "n/a", kinds[r].amount, "Cafe">>]
AmountGrids == {AmountGrid(k) : k \in SeqsUpTo(AmountRowKinds, MaxRows)}

\* a grid with a type, an amount and a balance column: two rows, the first
\* balance 100.00 before its amount of 4.50 and the second after 12.00 more
TypeWords == {"debit", "credit"}
TypeGrid(t1, t2) ==
  <<<<"Date", "Description", "Type", "Amount", "Balance">>,
    <<DateAt(1), "Cafe", t1, "4.50", IF t1 = "debit" THEN "95.50" ELSE "104.50">>,
    <<DateAt(2), "Cafe", t2, "12.00",
      IF t1 = "debit" THEN (IF t2 = "debit" THEN "83.50" ELSE "107.50")
      ELSE (IF t2 = "debit" THEN "92.50" ELSE "116.50")>>>>
TypeGrids == {TypeGrid(t1, t2) : t1 \in TypeWords, t2 \in TypeWords}

\* a grid whose only monetary column is a balance column
BalanceGrid(cells) ==
  <<<<"Date", "Description", "Balance">>>>
  \o [r \in 1..Len(cells) |-> <<DateAt(r), "Cafe", cells[r]>>]
C10Balances == <<"100", "100", "80", "80", "130">>
\* balances of BalanceRows rows: small movements and a jump beyond the outlier bounds
BalanceRows == 3
BalanceCells == {"100", "110", "5000"}
BalanceGrids ==
  {BalanceGrid(C10Balances)} \cup {BalanceGrid(b) : b \in [1..BalanceRows -> BalanceCells]}

\* a grid whose descriptions are drawn from a pool: plain text, a location
\* and text in which removing a term leaves the term
TermDescriptions == {"Cafe", "Shell CA", "aabb"}
TermGrid(descs) ==
  <<<<"Date", "Amount", "Description">>>>
  \o [r \in 1..Len(descs) |-> <<DateAt(r), "4.50", descs[r]>>]
TermGrids == {TermGrid(d) : d \in SeqsUpTo(TermDescriptions, MaxRows)}
TermOptions == {DefaultOptions(<<"ab">>)}

\* descriptions of up to MaxTokens pieces: a merchant prefix, a reference
\* label, a word, text in which removing a term leaves the term, a state
MaxTokens == 2
DescTokens == {"SQ *", "REF_", "Cafe", "aabb", " CA"}
RECURSIVE Glue(_)
Glue(tokens) == IF tokens = <<>> THEN "" ELSE Head(tokens) \o Glue(Tail(tokens))
Descriptions == {Glue(t) : t \in SeqsUpTo(DescTokens, MaxTokens)}
\* every setting of the options that sanitizeDescription reads
SanitizeOptions ==
  [maskPii : BOOLEAN, scrubContacts : BOOLEAN, fuzzLocation : BOOLEAN,
   cleanMetadata : {FALSE}, ultraClean : {FALSE}, customRemoveTerms : {<<>>, <<"ab">>}]
MaxPasses == 2

\* one statement as a CSV file, a workbook and a PDF; the typed text is the
\* statement
StatementText == "Date,Amount,Description\n2024-01-01,4.50,Cafe\n"
StatementGrid == <<<<"Date", "Amount", "Description">>, <<"2024-01-01", "4.50", "Cafe">>>>
Files ==
  {[name |-> "a.csv", type |-> "text/csv", text |-> StatementText, rows |-> <<>>],
   [name |-> "a.xlsx", type |-> "", text |-> "", rows |-> StatementGrid],
   [name |-> "a.pdf", type |-> "application/pdf", text |-> "", rows |-> StatementGrid]}
\* the files chosen in the runs that also process: the text file and the workbook
AppFiles == {file \in Files : file.name \in {"a.csv", "a.xlsx"}}
Texts == {StatementText}
MaxReads == 1
\* the reads awaited at a time when a file is chosen during a read
MaxRaceReads == 2

\* a grid with a debit and a credit column, neither of them the last column:
\* a row has a debit, a credit, both, a negative credit, or a negative debit
\* beside a credit of zero
SplitRowKinds ==
  {<<"45.00", "">>, <<"", "20.00">>, <<"45.00", "20.00">>, <<"", "-5.00">>, <<"-45.00", "0">>}
SplitGrid(kinds) ==
  <<<<"Date", "Debit", "Credit", "Description">>>>
  \o [r \in 1..Len(kinds) |-> <<DateAt(r), kinds[r][1], kinds[r][2], "Cafe">>]
SplitGrids == {SplitGrid(k) : k \in SeqsUpTo(SplitRowKinds, MaxRows)}

\* grids of many layouts: without a date column, without a monetary column,
\* with a type column and no money, a header alone, no row at all, ragged
\* rows, a row wider than the header, blank rows, a byte-order mark, and two
\* columns headed as debits
LayoutGrids ==
  {<<<<"Description", "Amount">>, <<"Coffee", "4.50">>>>,
   <<<<"Date", "Description">>, <<DateAt(1), "Coffee shop">>>>,
   <<<<"Date", "Type">>, <<DateAt(1), "debit">>, <<DateAt(2), "debit">>>>,
   <<<<"Memo", "Type">>, <<"Coffee shop", "debit">>, <<"Coffee shop", "credit">>>>,
   <<<<"Date", "Amount", "Description">>>>,
   <<>>,
   <<<<"Date", "Amount", "Description">>, <<DateAt(1), "4.50">>, <<DateAt(2)>>>>,
   <<<<"Date", "Amount">>, <<DateAt(1), "4.50", "Cafe", "x">>>>,
   <<<<"Date", "Amount", "Description">>, <<DateAt(1), "4.50", "Cafe">>, <<"", " ", "">>,
     <<DateAt(3), "-12.00", "Cafe">>>>,
   <<<<"", "">>, <<"Date", "Amount", "Description">>, <<DateAt(2), "4.50", "Cafe">>>>,
   <<<<BOM \o "Date", "Amount", "Description">>, <<DateAt(1), "4.50", "Cafe">>>>,
   <<<<"Date", "Debit", "Debit Fee", "Description">>, <<DateAt(1), "45.00", "1.00", "Cafe">>,
     <<DateAt(2), "20.00", "1.00", "Cafe">>>>,
   <<<<"Date", "Amount", "Description">>, <<"n/a", "4.50", "Cafe">>, <<"n/a", "x", "">>>>}

\* a grid of one row whose description is a merchant name, or text of which
\* the merchant normalizer leaves a part, or nothing
MerchantDescriptions ==
  {"Cafe", "POS 1234", "Acme Inc", "Inc", "#", "ACH: PPD", "CA", "", "SQ *",
   "Tim Hortons #15", "a-b"}
MerchantGrids == {TermGrid(<<d>>) : d \in MerchantDescriptions}
MerchantOptions == {DefaultOptions(<<>>), DefaultOptions(<<"Cafe">>)}

\* a grid with one signed amount column, the rightmost, and no balance column
TrailingAmounts == {"4.50", "-12.00", "100.00"}
TrailingAmountGrid(cells) ==
  <<<<"Date", "Description", "Amount">>>>
  \o [r \in 1..Len(cells) |-> <<DateAt(r), "Cafe", cells[r]>>]
TrailingAmountGrids == {TrailingAmountGrid(a) : a \in SeqsUpTo(TrailingAmounts, MaxRows)}

\* a balance grid of which some rows have a date that does not parse, and
\* one with the row of a statement summary
GapBalances == <<"100", "80", "130">>
GapGrid(dated) ==
  <<<<"Date", "Description", "Balance">>>>
  \o [r \in 1..Len(GapBalances) |->
        <<IF dated[r] THEN DateAt(r) ELSE "n/a", "Cafe", GapBalances[r]>>]
GapGrids ==
  {GapGrid(d) : d \in [1..Len(GapBalances) -> BOOLEAN]}
  \cup {<<<<"Date", "Description", "Balance">>,
          <<DateAt(1), "Cafe", "100">>,
          <<DateAt(2), "Ending balance", "80">>,
          <<DateAt(3), "Cafe", "130">>>>}
LedgerGrids == TrailingAmountGrids \cup GapGrids

\* statements of which some rows are summary rows, in three layouts: an
\* amount column only, an amount and a balance column, a balance column only
SummaryDescriptions == {"Cafe", "Opening balance", "ENDING BALANCE"}
SummaryLayouts == {"amount", "amount_balance", "balance"}
SummaryGrid(layout, descs) ==
  LET amounts == <<"4.50", "-12.00">>
      balances == <<"104.50", "92.50">>
  IN  IF layout = "amount"
      THEN <<<<"Date", "Amount", "Description">>>>
           \o [r \in 1..Len(descs) |-> <<DateAt(r), amounts[r], descs[r]>>]
      ELSE IF layout = "amount_balance"
      THEN <<<<"Date", "Description", "Amount", "Balance">>>>
           \o [r \in 1..Len(descs) |-> <<DateAt(r), descs[r], amounts[r], balances[r]>>]
      ELSE <<<<"Date", "Description", "Balance">>>>
           \o [r \in 1..Len(descs) |-> <<DateAt(r), descs[r], balances[r]>>]
SummaryGrids ==
  {SummaryGrid(l, d) : l \in SummaryLayouts, d \in [1..2 -> SummaryDescriptions]}

\* statements of three rows whose dates stand in any order, repeat, or do
\* not parse
OrderDates == {DateAt(1), DateAt(2), "n/a"}
OrderGrid(dates) ==
  <<<<"Date", "Amount", "Description">>>>
  \o [r \in 1..Len(dates) |-> <<dates[r], "4.50", "Cafe">>]
OrderGrids == {OrderGrid(d) : d \in [1..3 -> OrderDates]}

\* the grid with its data rows in the reverse order
ReverseRows(grid) ==
  <<grid[1]>> \o [r \in 1..(Len(grid) - 1) |-> grid[Len(grid) + 1 - r]]

(***************************************************************************)
(* The core as a state machine: one module instance of PATTERNS, one       *)
(* FinancialAnonymizer with its options, and the calls made on it with the *)
(* staged grid.                                                            *)
(***************************************************************************)
VARIABLES
  engine,        \* what Date.parse accepts beyond ISO dates
  options,       \* this.options
  inputRows,     \* the grid handed to processRows and preflightRows
  lastIndex,     \* lastIndex of the module-level /g patterns
  pc,            \* "idle", or "loop" inside processRows
  ctx,           \* processRows: shaped rows, column roles and row order
  i,             \* processRows: the loop index (1-based row of ctx.rows)
  transactions, skipSummary, removalReport, lastValidBalance, recentAbsDeltas,
  balancesForCorrelation, amountsForCorrelation,
  result,        \* <<>> or <<what the last processRows returned or threw>>
  preflight,     \* <<>> or <<the last PreflightReport>>
  rawText,       \* a description handed to sanitizeDescription
  cleaned,       \* what sanitizeDescription returned for it, applied again and again
  textarea,      \* app.ts: the value of the input textarea
  stagedKind,    \* app.ts: stagedKind
  stagedRows,    \* app.ts: stagedRows, <<>> for null or <<rows>>
  reads,         \* app.ts: the files whose read runPreflightForFile awaits
  isProcessing,  \* app.ts: isProcessing; the timer of runProcessing is pending
  disabled,      \* app.ts: btnProcess.disabled
  outputJSON,    \* app.ts: outputJSON, <<>> for null
  storage,       \* localStorage: a set of [key, value]
  caller         \* "runProcessing" while its timer callback is inside processRows

locals == <<transactions, skipSummary, removalReport, lastValidBalance, recentAbsDeltas,
            balancesForCorrelation, amountsForCorrelation>>
coreVars == <<engine, options, inputRows, lastIndex, pc, ctx, i, locals, result, preflight>>
textVars == <<rawText, cleaned>>
appVars == <<textarea, stagedKind, stagedRows, reads, isProcessing, disabled, outputJSON,
             storage, caller>>
vars == <<coreVars, textVars, appVars>>

NoCtx == [rows |-> <<>>, error |-> "none"]

\* the loop locals as one record, and the locals set from a record
Locals ==
  [transactions |-> transactions, skipSummary |-> skipSummary,
   removalReport |-> removalReport, lastValidBalance |-> lastValidBalance,
   recentAbsDeltas |-> recentAbsDeltas, balancesForCorrelation |-> balancesForCorrelation,
   amountsForCorrelation |-> amountsForCorrelation]

SetLocals(to) ==
  /\ transactions' = to.transactions
  /\ skipSummary' = to.skipSummary
  /\ removalReport' = to.removalReport
  /\ lastValidBalance' = to.lastValidBalance
  /\ recentAbsDeltas' = to.recentAbsDeltas
  /\ balancesForCorrelation' = to.balancesForCorrelation
  /\ amountsForCorrelation' = to.amountsForCorrelation

\* the state after the module is loaded and the anonymizer constructed,
\* for a grid of the family grids and options of the set optionSets, and
\* after app.ts has run its DOMContentLoaded handler on an empty page.  The
\* markup that sets the button's first state is not among the sources; with
\* no input runProcessing returns at once whatever that state is.
InitOf(engines, grids, optionSets, texts) ==
  /\ engine \in engines
  /\ options \in optionSets
  /\ inputRows \in grids
  /\ lastIndex = ZeroLastIndex
  /\ pc = "idle"
  /\ ctx = NoCtx
  /\ i = 0
  /\ transactions = <<>>
  /\ skipSummary = LoopStart.skipSummary
  /\ removalReport = NewReport
  /\ lastValidBalance = <<>>
  /\ recentAbsDeltas = <<>>
  /\ balancesForCorrelation = <<>>
  /\ amountsForCorrelation = <<>>
  /\ result = <<>>
  /\ preflight = <<>>
  /\ rawText \in texts
  /\ cleaned = <<>>
  /\ textarea = ""
  /\ stagedKind = "unknown"
  /\ stagedRows = <<>>
  /\ reads = {}
  /\ isProcessing = FALSE
  /\ disabled = TRUE
  /\ outputJSON = <<>>
  /\ storage = {}
  /\ caller = "none"

InitWith(grids, optionSets) == InitOf(Engines, grids, optionSets, {""})

\* processRows(rows) up to the loop: shape, classify, throw a fatal error or
\* enter the loop
BeginCall(rows) ==
  /\ \E c \in {Prepare(rows, engine)} :
       /\ ctx' = c
       /\ pc' = IF c.error # "none" THEN "idle" ELSE "loop"
       /\ result' = IF c.error # "none"
                    THEN <<Thrown(c)>>
                    ELSE <<>>
  /\ i' = 2
  /\ SetLocals(LoopStart)

\* a call of processRows on the grid
ProcessRowsBegin ==
  /\ pc = "idle"
  /\ caller = "none"
  /\ BeginCall(inputRows)
  /\ UNCHANGED <<engine, options, inputRows, lastIndex, preflight, textVars, appVars>>

\* one iteration of the loop of processRows; the row was sanitized unless it
\* was skipped for its length or its date
ProcessRow ==
  /\ pc = "loop"
  /\ i <= Len(ctx.rows)
  /\ \E to \in {ProcessRowStep(ctx, Locals, ctx.rows[i], options, engine)} :
       /\ SetLocals(to)
       /\ lastIndex' = IF Len(ctx.rows[i]) >= 2 /\ to.skipSummary.bad_date = skipSummary.bad_date
                       THEN AfterSanitize(IF ctx.descIdx # NoIdx THEN ctx.rows[i][ctx.descIdx]
                                          ELSE "Unknown", options, lastIndex)
                       ELSE lastIndex
  /\ i' = i + 1
  /\ UNCHANGED <<engine, options, inputRows, pc, ctx, result, preflight, textVars, appVars>>

\* the end of processRows: the metadata is computed and the result returned
ProcessRowsReturn ==
  /\ pc = "loop"
  /\ i > Len(ctx.rows)
  /\ result' = <<[error |-> "none", transactions |-> transactions,
                  metadata |-> Metadata(ctx, Locals, options)]>>
  /\ pc' = "idle"
  /\ UNCHANGED <<engine, options, inputRows, lastIndex, ctx, i, locals, preflight, textVars,
               appVars>>

\* a call of preflightRows (it has no awaits: one step)
PreflightRows ==
  /\ pc = "idle"
  /\ caller = "none"
  /\ \E p \in {preflightRows(inputRows, options, engine, lastIndex)} :
       /\ preflight' = <<p.report>>
       /\ lastIndex' = p.lastIndex
  /\ UNCHANGED <<engine, options, inputRows, pc, ctx, i, locals, result, textVars, appVars>>

Next == ProcessRowsBegin \/ ProcessRow \/ ProcessRowsReturn \/ PreflightRows

(***************************************************************************)
(* sanitizeDescription applied to a text, and to what it returned          *)
(***************************************************************************)
Sanitize ==
  /\ Len(cleaned) < MaxPasses
  /\ cleaned' = Append(cleaned,
                       sanitizeDescription(IF cleaned = <<>> THEN rawText
                                           ELSE cleaned[Len(cleaned)], options).out)
  /\ UNCHANGED <<coreVars, rawText, appVars>>

NextSanitize == Sanitize

(***************************************************************************)
(* scripts/app.ts: staging a file, typing, clearing and processing.  An    *)
(* event handler runs when no other code does.                             *)
(***************************************************************************)
Quiet == pc = "idle" /\ caller = "none"
HasInput(staged, text) == staged # <<>> \/ trim(text) # ""
setItem(store, key, value) ==
  {e \in store : e.key # key} \cup {[key |-> key, value |-> value]}

\* runPreflightForFile up to its first await: a file of a supported kind is
\* being read; any other file is refused at once
StartPreflight(file, limit) ==
  /\ Quiet
  /\ file \notin reads
  /\ Cardinality(reads) < limit
  /\ preflight' = <<>>
  /\ stagedRows' = <<>>
  /\ stagedKind' = detectFileKind(file)
  /\ IF detectFileKind(file) = "unknown"
     THEN /\ reads' = reads
          /\ disabled' = (isProcessing \/ ~HasInput(<<>>, textarea))
     ELSE /\ reads' = reads \cup {file}
          /\ disabled' = disabled
  /\ UNCHANGED <<engine, options, inputRows, lastIndex, pc, ctx, i, locals, result, textVars,
                 textarea, isProcessing, outputJSON, storage, caller>>

\* runPreflightForFile with at most MaxReads reads awaited at a time
RunPreflightForFile(file) == StartPreflight(file, MaxReads)

\* runPreflightForFile after the read: the rows are staged, the textarea shows
\* the text or a hint, and preflightRows runs on the rows
FileRead(file) ==
  /\ Quiet
  /\ file \in reads
  /\ reads' = reads \ {file}
  /\ \E rows \in {IF detectFileKind(file) = "csv" THEN rowsFromCsvText(file.text)
                  ELSE file.rows} :
       /\ stagedRows' = <<rows>>
       /\ inputRows' = rows
       /\ textarea' = IF detectFileKind(file) = "csv" THEN file.text
                      ELSE IF detectFileKind(file) = "xlsx"
                      THEN LoadedHint(file, "Parsed as XLSX", rows)
                      ELSE LoadedHint(file, "Extracted PDF text", rows)
       /\ \E p \in {preflightRows(rows, options, engine, lastIndex)} :
            /\ preflight' = <<p.report>>
            /\ lastIndex' = p.lastIndex
  /\ disabled' = isProcessing
  /\ UNCHANGED <<engine, options, pc, ctx, i, locals, result, textVars,
                 stagedKind, isProcessing, outputJSON, storage, caller>>

\* runPreflightForFile when the read or the extraction fails
FileReadFailed(file) ==
  /\ Quiet
  /\ file \in reads
  /\ reads' = reads \ {file}
  /\ stagedRows' = <<>>
  /\ preflight' = <<>>
  /\ disabled' = (isProcessing \/ ~HasInput(<<>>, textarea))
  /\ UNCHANGED <<engine, options, inputRows, lastIndex, pc, ctx, i, locals, result, textVars,
                 textarea, stagedKind, isProcessing, outputJSON, storage, caller>>

\* the input handler of the textarea (tryLoadSavedMapping only reads)
TextInput(text) ==
  /\ Quiet
  /\ text # textarea
  /\ textarea' = text
  /\ disabled' = (isProcessing \/ trim(text) = "")
  /\ UNCHANGED <<coreVars, textVars, stagedKind, stagedRows, reads, isProcessing, outputJSON,
                 storage, caller>>

\* the click handler of Clear
Clear ==
  /\ Quiet
  /\ textarea' = ""
  /\ outputJSON' = <<>>
  /\ stagedRows' = <<>>
  /\ stagedKind' = "unknown"
  /\ preflight' = <<>>
  /\ disabled' = TRUE
  /\ UNCHANGED <<engine, options, inputRows, lastIndex, pc, ctx, i, locals, result, textVars,
                 reads, isProcessing, storage, caller>>

\* runProcessing, the click handler of the enabled button, up to setTimeout
RunProcessing ==
  /\ Quiet
  /\ ~disabled
  /\ HasInput(stagedRows, textarea)
  /\ outputJSON' = <<>>
  /\ isProcessing' = TRUE
  /\ disabled' = TRUE
  /\ UNCHANGED <<coreVars, textVars, textarea, stagedKind, stagedRows, reads, storage, caller>>

\* the timer callback of runProcessing enters processRows with the staged
\* rows, or process with the text
ProcessingTimer ==
  /\ Quiet
  /\ isProcessing
  /\ \E rows \in {IF stagedRows # <<>> THEN stagedRows[1] ELSE shapeRows(parseCSV(textarea))} :
       /\ inputRows' = rows
       /\ BeginCall(rows)
  /\ caller' = "runProcessing"
  /\ UNCHANGED <<engine, options, lastIndex, preflight, textVars, textarea, stagedKind,
                 stagedRows, reads, isProcessing, disabled, outputJSON, storage>>

\* the rest of the callback: the mapping is remembered when processRows
\* returned, nothing is when it threw; then the finally block
ProcessingDone ==
  /\ pc = "idle"
  /\ caller = "runProcessing"
  /\ IF result[1].error = "none"
     THEN /\ outputJSON' = result
          /\ \E sig \in {signatureFromHeaders(parseCSVHeaderRow(textarea))} :
               storage' = setItem(storage, "fa:dialect:" \o sig,
                            [signature |-> sig,
                             detectedColumnsList |-> result[1].metadata.detectedColumnsList,
                             rowOrder |-> result[1].metadata.rowOrder,
                             directionStrategy |-> result[1].metadata.directionStrategy,
                             directionConfidence |-> result[1].metadata.directionConfidence])
     ELSE UNCHANGED <<outputJSON, storage>>
  /\ isProcessing' = FALSE
  /\ disabled' = ~HasInput(stagedRows, textarea)
  /\ caller' = "none"
  /\ UNCHANGED <<coreVars, textVars, textarea, stagedKind, stagedRows, reads>>

NextApp ==
  \/ \E file \in AppFiles : RunPreflightForFile(file)
  \/ \E file \in AppFiles : FileRead(file)
  \/ \E file \in AppFiles : FileReadFailed(file)
  \/ \E text \in Texts : TextInput(text)
  \/ Clear
  \/ RunProcessing
  \/ ProcessingTimer
  \/ ProcessRow
  \/ ProcessRowsReturn
  \/ ProcessingDone

\* statements with one amount column, or with type, amount and balance
Init == InitWith(AmountGrids \cup TypeGrids, {DefaultOptions(<<>>)})
Spec == Init /\ [][Next]_vars

(***************************************************************************)
(* Properties of the returned transactions and metadata                    *)
(***************************************************************************)
Returned == result # <<>> /\ result[1].error = "none"
Emitted == IF Returned THEN {result[1].transactions[t] : t \in 1..Len(result[1].transactions)}
           ELSE {}
Detected(role) == Returned /\ findIndex(result[1].metadata.detectedColumnsList, role) # NoIdx

\* C1: every transaction returned by processRows has an amount that is a
\* non-zero number; its type is "income" exactly when the amount is positive
\* and "expense" exactly when it is negative.
C1_AmountNonZeroTypeBySign ==
  \A t \in Emitted :
    /\ ~isNaN(t.amount) /\ t.amount.v # 0
    /\ (t.type = "income") = Gt(t.amount, Zero)
    /\ (t.type = "expense") = Lt(t.amount, Zero)

\* C2: when a type column, an amount column and a balance column are all
\* detected, the direction strategy in the metadata is "type", not "balance".
C2_TypeBeforeBalance ==
  (Detected("type") /\ Detected("amount") /\ Detected("balance"))
    => result[1].metadata.directionStrategy = "type"

\* C5: every data row that processRows does not emit as a transaction is
\* counted under a reason in skipSummary: the rows not emitted are at most
\* as many as the skips counted.
C5_EverySkippedRowTallied ==
  Returned =>
    result[1].metadata.originalRowCount - 1 - result[1].metadata.sanitizedRowCount
      <= result[1].metadata.skipSummary.bad_date
         + result[1].metadata.skipSummary.suspect_balance_row


(***************************************************************************)
(* Statements whose only monetary column is a balance                      *)
(***************************************************************************)
InitBalance == InitWith(BalanceGrids, {DefaultOptions(<<>>)})
SpecBalance == InitBalance /\ [][Next]_vars

\* the signed amounts (in cents) of a result of processRows
Amounts(res) == [t \in 1..Len(res.transactions) |-> res.transactions[t].amount.v]
AmountSet(res) == {Amounts(res)[t] : t \in 1..Len(res.transactions)}

\* C10: for the balance column 100, 100, 80, 80, 130 in ascending file order
\* processRows emits exactly two transactions, -20 and +50 in that order.
C10_BalanceReconciliation ==
  (Returned /\ inputRows = BalanceGrid(C10Balances))
    => Amounts(result[1]) = <<0 - 2000, 5000>>

C10_Witness ==
  /\ Returned /\ inputRows = BalanceGrid(C10Balances)
  /\ Len(result[1].transactions) = 2
  /\ result[1].metadata.rowOrder = "asc"

InitTerms == InitWith(TermGrids, TermOptions)
SpecTerms == InitTerms /\ [][Next]_vars

\* C3: for every redaction kind, the planned count of preflightRows is at
\* most the count processRows records in its removal report over the same
\* rows with the same options.
C3_PreflightNeverOverstates ==
  (Returned /\ preflight # <<>>)
    => \A k \in RedactionKinds :
         preflight[1].plannedRedactions[k] <= result[1].metadata.removalReport.redactions[k]

\* C4: what processRows and preflightRows return for a grid and options does
\* not depend on the core calls made before: it is what the first call after
\* the module is loaded returns.
C4_NoStateAcrossCalls ==
  /\ preflight # <<>>
       => preflight[1] = preflightRows(inputRows, options, engine, ZeroLastIndex).report
  /\ result # <<>> => result[1] = processRows(inputRows, options, engine)

\* C8: no emitted transaction contains a configured custom term, matched
\* literally and case-insensitively, in its description or its merchant.
C8_NoCustomTermEmitted ==
  \A t \in Emitted :
    \A k \in 1..Len(TrimmedTerms(options.customRemoveTerms)) :
      /\ ~includes(toLowerCase(t.description),
                   toLowerCase(TrimmedTerms(options.customRemoveTerms)[k]))
      /\ ~includes(toLowerCase(t.merchant),
                   toLowerCase(TrimmedTerms(options.customRemoveTerms)[k]))

(***************************************************************************)
(* sanitizeDescription on its own                                          *)
(***************************************************************************)
InitSanitize == InitOf(Engines, {<<>>}, SanitizeOptions, Descriptions)
SpecSanitize == InitSanitize /\ [][NextSanitize]_vars

\* C6: sanitizeDescription is idempotent: sanitizing its output again, with
\* the same options, returns that output
C6_SanitizeIdempotent == Len(cleaned) >= 2 => cleaned[2] = cleaned[1]

(***************************************************************************)
(* The application                                                         *)
(***************************************************************************)
InitApp == InitOf({"strict"}, {<<>>}, {DefaultOptions(<<>>)}, {""})
SpecApp == InitApp /\ [][NextApp]_vars

\* C9: whatever the kind of the input, a mapping is remembered under the key
\* made of the normalised headers of the grid that processRows was given
C9_KeyFromProcessedHeaders ==
  [][\A e \in storage' \ storage : e.key = DialectKey(shapeRows(inputRows)[1])]_vars

(***************************************************************************)
(* Statements with a debit and a credit column                             *)
(***************************************************************************)
InitSplit == InitOf({"strict"}, SplitGrids, {DefaultOptions(<<>>)}, {""})
SpecSplit == InitSplit /\ [][Next]_vars

\* the rows of the call that returned, and what the claims say of them
DataRows == 2..Len(ctx.rows)
DateOf(r) == parseDateString(ctx.rows[r][ctx.dateIdx], engine)
NonZero(x) == ~isNaN(x) /\ x.v # 0
HasTransaction(date, amount, type, source) ==
  \E t \in Emitted : /\ t.date = date /\ t.amount = amount
                     /\ t.type = type /\ t.inferenceSource = source
SplitResolved ==
  Returned /\ ctx.debitIdx # NoIdx /\ ctx.creditIdx # NoIdx /\ ctx.balanceIdx = NoIdx

\* C11 as stated: a row resolved by the split columns with a non-zero credit
\* gives an income of the credit value, and otherwise with a non-zero debit
\* an expense of minus the debit value, both with provenance explicit.
C11_SplitAmountIsCellValue ==
  SplitResolved =>
    \A r \in DataRows :
      LET credit == cleanCurrency(ctx.rows[r][ctx.creditIdx])
          debit == cleanCurrency(ctx.rows[r][ctx.debitIdx])
      IN  IF NonZero(credit) THEN HasTransaction(DateOf(r), credit, "income", "explicit")
          ELSE NonZero(debit) => HasTransaction(DateOf(r), Neg(debit), "expense", "explicit")

\* C11 amended: the same with the magnitudes of the cells: an income of the
\* absolute credit value, otherwise an expense of minus the absolute debit
\* value, both with provenance explicit.
C11_SplitAmountIsMagnitude ==
  SplitResolved =>
    \A r \in DataRows :
      LET credit == cleanCurrency(ctx.rows[r][ctx.creditIdx])
          debit == cleanCurrency(ctx.rows[r][ctx.debitIdx])
      IN  IF NonZero(credit) THEN HasTransaction(DateOf(r), Abs(credit), "income", "explicit")
          ELSE NonZero(debit)
                 => HasTransaction(DateOf(r), Neg(Abs(debit)), "expense", "explicit")

\* a row with debit "45.00" and credit "" was resolved by the split columns
C11_Witness ==
  /\ SplitResolved
  /\ \E r \in DataRows : /\ ctx.rows[r][ctx.debitIdx] = "45.00"
                          /\ ctx.rows[r][ctx.creditIdx] = ""
                          /\ HasTransaction(DateOf(r), Num(0 - 4500), "expense", "explicit")

(***************************************************************************)
(* Grids of many layouts: shaping, classification and the fatal errors     *)
(***************************************************************************)
InitLayout == InitWith(LayoutGrids, {DefaultOptions(<<>>)})
SpecLayout == InitLayout /\ [][Next]_vars

\* a call of processRows has shaped and classified the grid
Called == ctx # NoCtx
RoleCount(role) ==
  Cardinality({c \in 1..Len(ctx.columnAnalysis) : ctx.columnAnalysis[c].columnType = role})
NoDateColumn == Len(ctx.rows) >= 2 /\ RoleCount("date") = 0
NoMoneyColumn ==
  /\ Len(ctx.rows) >= 2
  /\ RoleCount("amount") + RoleCount("debit") + RoleCount("credit") + RoleCount("balance") = 0
Threw == result # <<>> /\ result[1].error # "none"

\* C12: processRows on a grid in which no column is classified as date
\* returns no result and throws an error whose message names the Date column
\* as what is missing.
C12_NoDateColumnNamesDate ==
  (Called /\ pc = "idle" /\ NoDateColumn)
    => /\ Threw
       /\ result[1].transactions = <<>>
       /\ includes(result[1].message, "find a Date column")

C12_Witness ==
  /\ inputRows = <<<<"Description", "Amount">>, <<"Coffee", "4.50">>>>
  /\ Threw
  /\ NoDateColumn

\* C13: the message of every fatal error for a missing required role (no
\* date column, no monetary column) names every role that was detected in
\* the grid.
C13_ErrorsEnumerateDetectedRoles ==
  (Threw /\ (NoDateColumn \/ NoMoneyColumn))
    => \A c \in 1..Len(ctx.columnAnalysis) :
         ctx.columnAnalysis[c].columnType # "unknown"
           => includes(result[1].message, ctx.columnAnalysis[c].columnType)

\* C14: processRows throws exactly for the three fatal conditions (fewer
\* than two rows after shaping, no date column, no monetary column); a call
\* that passes them is in its loop over the data rows, and every step of
\* the loop either goes on to the next row without throwing or, after the
\* last row, returns a result.
C14_OnlyFatalShapeErrors ==
  /\ [](result # <<>>
          => (Threw <=> (Len(ctx.rows) < 2 \/ NoDateColumn \/ NoMoneyColumn)))
  /\ [](pc = "loop" => /\ ~(Len(ctx.rows) < 2 \/ NoDateColumn \/ NoMoneyColumn)
                       /\ i <= Len(ctx.rows) + 1)
  /\ [][pc = "loop" => \/ pc' = "loop" /\ i' = i + 1 /\ i <= Len(ctx.rows) /\ result' = <<>>
                       \/ i > Len(ctx.rows) /\ Returned']_vars

\* a grid with a row of a bad date and a row without money or description
\* went through the loop and a result was returned
C14_Witness ==
  /\ Returned
  /\ inputRows = <<<<"Date", "Amount", "Description">>, <<"n/a", "4.50", "Cafe">>,
                   <<"n/a", "x", "">>>>
  /\ result[1].metadata.skipSummary.bad_date = 2

\* C15: shapeRows neither drops nor reorders rows: the shaped grid has as
\* many rows as the input and its r-th row is the input's r-th row followed
\* by padding (the header without the byte-order mark and with the added
\* column names).
C15_ShapeKeepsRows ==
  Called =>
    /\ Len(ctx.rows) = Len(inputRows)
    /\ \A r \in 1..Len(inputRows) :
         /\ Len(ctx.rows[r]) >= Len(inputRows[r])
         /\ \A j \in 1..Len(ctx.rows[r]) :
              ctx.rows[r][j] =
                IF j > Len(inputRows[r])
                THEN (IF r = 1 THEN "Column_" \o IntToStr(j) ELSE "")
                ELSE IF r = 1 /\ j = 1 /\ startsWith(inputRows[r][j], BOM)
                THEN Drop(inputRows[r][j], 1)
                ELSE inputRows[r][j]

\* C16: a classification has at most one debit column and at most one
\* credit column.
C16_OneDebitOneCredit ==
  Called => RoleCount("debit") <= 1 /\ RoleCount("credit") <= 1

InitMerchant == InitOf({"strict"}, MerchantGrids, MerchantOptions, {""})
SpecMerchant == InitMerchant /\ [][Next]_vars

\* what is left of the description of row r after sanitizeDescription, the
\* custom removals and the removals of normalizeMerchant
RawDescOf(r) == IF ctx.descIdx # NoIdx THEN ctx.rows[r][ctx.descIdx] ELSE "Unknown"
Surviving(r) ==
  LET Left(clean) ==
        IF clean = "" THEN ""
        ELSE Pipeline(MerchantSteps, 1,
                      [out |-> applyCustomRemovals(clean, options).out,
                       kinds |-> {}, ids |-> 0]).out
  IN  Left(sanitizeDescription(RawDescOf(r), options).out)

\* C17: every transaction returned by processRows has a merchant that is
\* not empty (nor blank), and the merchant of a row of whose description
\* nothing survives the normalization is exactly "Unknown".
C17_MerchantNeverEmpty ==
  /\ \A t \in Emitted : t.merchant # "" /\ trim(t.merchant) # ""
  /\ Returned =>
       \A r \in DataRows :
         Surviving(r) = "" => \A t \in Emitted : t.date = DateOf(r) => t.merchant = "Unknown"

\* a transaction was returned for a row of whose description "POS 1234"
\* nothing survives, with the merchant "Unknown"
C17_Witness ==
  /\ Returned
  /\ \E r \in DataRows : /\ RawDescOf(r) = "POS 1234"
                          /\ Surviving(r) = ""
                          /\ \E t \in Emitted : t.date = DateOf(r) /\ t.merchant = "Unknown"

(***************************************************************************)
(* Amounts and balances in file order                                      *)
(***************************************************************************)
InitLedger == InitWith(LedgerGrids, {DefaultOptions(<<>>)})
SpecLedger == InitLedger /\ [][Next]_vars

\* the grid has the columns date, description and amount, in this order
TrailingAmountInput ==
  /\ Len(inputRows) >= 2
  /\ inputRows[1] = <<"Date", "Description", "Amount">>

\* C19: for a grid whose columns are a date, a description and one signed
\* amount column, the rightmost, every transaction returned by processRows
\* has the amount that cleanCurrency reads in the amount cell of its own row.
C19_AmountIsOwnCell ==
  (Returned /\ TrailingAmountInput) =>
    \A t \in Emitted :
      \E r \in DataRows : /\ t.date = parseDateString(ctx.rows[r][1], engine)
                          /\ StrictEq(t.amount, cleanCurrency(ctx.rows[r][3]))

\* the balance of row r of the shaped grid
BalanceOf(r) == cleanCurrency(ctx.rows[r][ctx.balanceIdx])

\* C20: once the loop of processRows has handled a data row whose balance
\* cell parses, lastValidBalance is the balance of that row, whether or not
\* the row was emitted.
C20_LastValidBalanceIsLastHandled ==
  (pc = "loop" /\ ctx.balanceIdx # NoIdx /\ i > 2 /\ ~isNaN(BalanceOf(i - 1)))
    => lastValidBalance = <<BalanceOf(i - 1).v>>

(***************************************************************************)
(* Summary rows                                                            *)
(***************************************************************************)
InitSummary == InitOf({"strict"}, SummaryGrids, {DefaultOptions(<<>>)}, {""})
SpecSummary == InitSummary /\ [][Next]_vars

\* C21: processRows returns no transaction for a row whose description
\* matches the summary-row vocabulary, whichever monetary columns the grid has.
C21_NoSummaryRowEmitted ==
  Returned =>
    \A r \in DataRows :
      looksLikeBalanceSummary(RawDescOf(r)) => ~\E t \in Emitted : t.date = DateOf(r)

(***************************************************************************)
(* The outlier test of the balance engine                                  *)
(***************************************************************************)
\* the loop is at a row that reaches the delta of the balance engine: the
\* row is dated, its balance parses and an earlier balance was recorded
AtDelta ==
  /\ pc = "loop" /\ i <= Len(ctx.rows)
  /\ ctx.balanceIdx # NoIdx
  /\ Len(ctx.rows[i]) >= 2
  /\ DateOf(i) # Null
  /\ ~isNaN(BalanceOf(i))
  /\ lastValidBalance # <<>>
AbsDeltaAt == AbsInt(BalanceChange(ctx.rowOrder, lastValidBalance[1], BalanceOf(i).v))

\* C22: the balance engine rejects the delta of a row exactly when the row
\* matches the summary vocabulary or the magnitude of the delta exceeds both
\* 50 times the median of the recent deltas and the floor of 2500, in every
\* state of the history of recent deltas, the empty one included.
C22_RejectsExactlyOutliers ==
  [][(AtDelta /\ i' = i + 1) =>
       ((skipSummary'.suspect_balance_row = skipSummary.suspect_balance_row + 1)
        <=> \/ looksLikeBalanceSummary(RawDescOf(i))
            \/ /\ 2 * AbsDeltaAt > OutlierFactor * median2(recentAbsDeltas)
               /\ AbsDeltaAt > OutlierFloorCents)]_vars

(***************************************************************************)
(* The row order                                                           *)
(***************************************************************************)
InitOrder == InitOf({"strict"}, OrderGrids, {DefaultOptions(<<>>)}, {""})
SpecOrder == InitOrder /\ [][Next]_vars

\* the parseable dates of the data rows, in file order, and the numbers of
\* adjacent pairs of them that strictly increase and strictly decrease
ParsedDates == Truthy([r \in 1..(Len(ctx.rows) - 1) |-> DateOf(r + 1)])
Increasing ==
  Cardinality({k \in 2..Len(ParsedDates) : StrLess(ParsedDates[k - 1], ParsedDates[k])})
Decreasing ==
  Cardinality({k \in 2..Len(ParsedDates) : StrLess(ParsedDates[k], ParsedDates[k - 1])})
Prepared == Called /\ ctx.error = "none"

\* C23: inferRowOrderFromDates returns "unknown" when fewer than 3 dates
\* parse, when all adjacent dates are equal, or when as many adjacent pairs
\* strictly increase as strictly decrease; otherwise it returns the
\* direction of the majority of the adjacent pairs.
C23_RowOrderByMajority ==
  Prepared =>
    ctx.rowOrder = IF \/ Len(ParsedDates) < 3
                      \/ Increasing = Decreasing
                   THEN "unknown"
                   ELSE IF Increasing > Decreasing THEN "asc" ELSE "desc"

(***************************************************************************)
(* The orientation of the balance deltas                                   *)
(***************************************************************************)
\* balance statements of three rows, oldest first and newest first
OrientationBalances == {"100", "80"}
OrientationGrids ==
  {BalanceGrid(b) : b \in [1..3 -> OrientationBalances]}
  \cup {ReverseRows(BalanceGrid(b)) : b \in [1..3 -> OrientationBalances]}
InitOrientation == InitOf({"strict"}, OrientationGrids, {DefaultOptions(<<>>)}, {""})
SpecOrientation == InitOrientation /\ [][Next]_vars

\* the pairs of the correlation lists whose delta, taken current minus
\* previous (forward) or previous minus current, is the amount of the row
\* within the tolerance
DeltaMatches(forward) ==
  Cardinality({k \in 2..Len(balancesForCorrelation) :
                 /\ k <= Len(amountsForCorrelation)
                 /\ NonZero(amountsForCorrelation[k])
                 /\ ~isNaN(balancesForCorrelation[k]) /\ ~isNaN(balancesForCorrelation[k - 1])
                 /\ AbsInt((IF forward
                            THEN balancesForCorrelation[k].v - balancesForCorrelation[k - 1].v
                            ELSE balancesForCorrelation[k - 1].v - balancesForCorrelation[k].v)
                           - amountsForCorrelation[k].v) <= ToleranceCents})

\* C24: chooseBalanceOrientation returns "reverse" for the balances and
\* amounts of which more pairs match the reverse delta (previous minus
\* current) than the forward delta (current minus previous).
C24_ReverseOrientationReported ==
  (Returned /\ ctx.balanceIdx # NoIdx /\ DeltaMatches(FALSE) > DeltaMatches(TRUE))
    => chooseBalanceOrientation(balancesForCorrelation, amountsForCorrelation,
                                ToleranceCents).orientation = "reverse"

(***************************************************************************)
(* The direction reported in the metadata                                  *)
(***************************************************************************)
\* statements with a debit, a credit and a balance column
SplitBalanceKinds == {<<"45.00", "">>, <<"", "20.00">>, <<"45.00", "20.00">>}
SplitBalanceGrid(kinds) ==
  LET balances == <<"100.00", "55.00">>
  IN  <<<<"Date", "Description", "Debit", "Credit", "Balance">>>>
      \o [r \in 1..Len(kinds) |-> <<DateAt(r), "Cafe", kinds[r][1], kinds[r][2], balances[r]>>]
SplitBalanceGrids == {SplitBalanceGrid(k) : k \in SeqsUpTo(SplitBalanceKinds, MaxRows)}
InitDirection == InitWith(SplitBalanceGrids \cup TypeGrids, {DefaultOptions(<<>>)})
SpecDirection == InitDirection /\ [][Next]_vars

\* C25: whenever the metadata of processRows reports the direction strategy
\* "balance", the direction confidence reported with it lies between 0.6
\* and 0.95.
C25_BalanceConfidenceInRange ==
  (Returned /\ result[1].metadata.directionStrategy = "balance")
    => /\ 100 * result[1].metadata.directionConfidence.n
            >= 60 * result[1].metadata.directionConfidence.d
       /\ 100 * result[1].metadata.directionConfidence.n
            <= 95 * result[1].metadata.directionConfidence.d

(***************************************************************************)
(* The type column                                                         *)
(***************************************************************************)
\* statements of three rows with a column of type words: a word of the
\* vocabulary, and text that only contains one or two of its keywords
TypeCells == {"debit", "Debit Card", "Debit/Credit memo"}
TypeCellGrid(cells) ==
  <<<<"Date", "Type", "Amount", "Description">>>>
  \o [r \in 1..Len(cells) |-> <<DateAt(r), cells[r], "4.50", "Cafe">>]
TypeCellGrids == {TypeCellGrid(c) : c \in [1..3 -> TypeCells]}
InitTypeColumn == InitOf({"strict"}, TypeCellGrids, {DefaultOptions(<<>>)}, {""})
SpecTypeColumn == InitTypeColumn /\ [][Next]_vars

\* the sampled cells of column c that are a word of the debit/credit vocabulary
ExactTypeCells(c) ==
  Cardinality({r \in 1..Len(SampleRows(ctx.rows)) :
                 \E t \in 1..Len(TYPE_TOKENS) :
                   Test(TYPE_TOKENS[t].token, toLowerCase(trim(SampleRows(ctx.rows)[r][c])), TRUE)})

\* C26: detectTypeColumn reports a type column only when at least two
\* sampled values of that column are words of the debit/credit vocabulary;
\* cells that merely contain a keyword never make a column pass.
C26_TypeColumnNeedsTwoExact ==
  (Called /\ Len(ctx.rows) >= 2 /\ detectTypeColumn(ctx.rows) # NoIdx)
    => ExactTypeCells(detectTypeColumn(ctx.rows)) >= 2

(***************************************************************************)
(* The direction of the type cell                                          *)
(***************************************************************************)
\* statements with a type and an amount column and no balance: every row
\* has a word of the vocabulary and an amount that is unsigned, negative,
\* or a lone dash
TypedAmountKinds == {"debit", "credit"} \X {"4.50", "-12.00", "-"}
TypedAmountGrid(kinds) ==
  <<<<"Date", "Type", "Amount", "Description">>>>
  \o [r \in 1..Len(kinds) |-> <<DateAt(r), kinds[r][1], kinds[r][2], "Cafe">>]
TypedAmountGrids == {TypedAmountGrid(k) : k \in [1..2 -> TypedAmountKinds]}
InitTyped == InitOf({"strict"}, TypedAmountGrids, {DefaultOptions(<<>>)}, {""})
SpecTyped == InitTyped /\ [][Next]_vars

\* the amount of the rows is taken from the single amount column, and the
\* grid has a type column
TypedSingleAmount ==
  /\ Returned
  /\ ctx.amountIdx # NoIdx /\ ctx.typeIdx # NoIdx
  /\ ctx.balanceIdx = NoIdx
  /\ ~(ctx.debitIdx # NoIdx /\ ctx.creditIdx # NoIdx)
DirectionOf(r) == mapTypeToDirection(ctx.rows[r][ctx.typeIdx])

\* C27: when the amount of a row is taken from the single amount column and
\* the type cell of the row maps to a direction, the transaction of the row
\* has the magnitude of the raw amount and the sign of the direction,
\* negative for expense and positive for income, with provenance "explicit".
C27_TypeDirectionOverridesSign ==
  TypedSingleAmount =>
    \A r \in DataRows :
      DirectionOf(r) # Null =>
        \A t \in Emitted :
          t.date = DateOf(r) =>
            /\ IF DirectionOf(r) = "expense" THEN Lt(t.amount, Zero) ELSE Gt(t.amount, Zero)
            /\ StrictEq(Abs(t.amount), Abs(cleanCurrency(ctx.rows[r][ctx.amountIdx])))
            /\ t.inferenceSource = "explicit"

(***************************************************************************)
(* What the remembered mapping holds                                       *)
(***************************************************************************)
\* the non-empty cells of the data rows of the grid processRows was given
DataCells ==
  {ctx.rows[r][k] : r \in 2..Len(ctx.rows), k \in 1..Len(ctx.rows[1])} \ {""}
\* the strings held by a remembered mapping
PayloadStrings(payload) ==
  {payload.signature, payload.rowOrder, payload.directionStrategy}
  \cup {payload.detectedColumnsList[c].sampleValue : c \in 1..Len(payload.detectedColumnsList)}
  \cup {payload.detectedColumnsList[c].columnType : c \in 1..Len(payload.detectedColumnsList)}

\* C28: the mapping that runProcessing writes to local storage after
\* processing holds no raw cell value of the data rows of the processed grid.
C28_NoRawCellRemembered ==
  [][\A e \in storage' \ storage : PayloadStrings(e.value) \cap DataCells = {}]_vars

(***************************************************************************)
(* A file chosen while another is being read                               *)
(***************************************************************************)
\* the file handlers alone, a second file being chosen during the read of
\* the first; the reads end in any order
ChooseFile(file) == StartPreflight(file, MaxRaceReads)
NextRace ==
  \/ \E file \in Files : ChooseFile(file)
  \/ \E file \in Files : FileRead(file)
  \/ \E file \in Files : FileReadFailed(file)
  \/ Clear
SpecRace == InitApp /\ [][NextRace]_vars

\* what the read of a file leaves in the textarea and in stagedRows
TextareaOf(file) ==
  IF detectFileKind(file) = "csv" THEN file.text
  ELSE IF detectFileKind(file) = "xlsx" THEN LoadedHint(file, "Parsed as XLSX", file.rows)
  ELSE LoadedHint(file, "Extracted PDF text", file.rows)
RowsOf(file) == IF detectFileKind(file) = "csv" THEN rowsFromCsvText(file.text) ELSE file.rows

\* C29: when a second file was chosen during the preflight of a first, then
\* once both preflights have settled the staged rows, the staged kind, the
\* preflight report and the textarea all belong to the file chosen last.
C29_LastChosenFileWins ==
  [][(reads # {} /\ reads' = {} /\ stagedRows' # <<>> /\ stagedKind' # "unknown")
       => \E file \in Files :
            /\ stagedKind' = detectFileKind(file)
            /\ textarea' = TextareaOf(file)
            /\ stagedRows' = <<RowsOf(file)>>
            /\ preflight' = <<preflightRows(RowsOf(file), options, engine, lastIndex).report>>]_vars

(***************************************************************************)
(* Quoted fields of delimited text                                         *)
(***************************************************************************)
\* cells: plain, with a comma, with a line break, a quote alone, and with
\* a comma after a line break and a quote
CsvCells == {"a", "b,c", "d\ne", "\"", "x\n\",y"}
\* a cell as a CSV writer writes it: in quotes, its quotes doubled, when it
\* holds a comma, a quote or a line break
NeedsQuotes(cell) == includes(cell, ",") \/ includes(cell, "\"") \/ includes(cell, "\n")
CsvCell(cell) ==
  IF NeedsQuotes(cell) THEN "\"" \o ReplaceAll(Lit("\""), cell, FALSE, "\"\"") \o "\""
  ELSE cell
CsvLine(row) == join([k \in 1..Len(row) |-> CsvCell(row[k])], ",")
CsvText(grid) == join([r \in 1..Len(grid) |-> CsvLine(grid[r])], "\n") \o "\n"
CsvGrids == {<<<<"Date", "Note">>, <<c1, c2>>>> : c1 \in CsvCells, c2 \in CsvCells}
CsvFiles ==
  {[name |-> "a.csv", type |-> "text/csv", text |-> CsvText(g), rows |-> <<>>] : g \in CsvGrids}

NextCsv ==
  \/ \E file \in CsvFiles : RunPreflightForFile(file)
  \/ \E file \in CsvFiles : FileRead(file)
SpecCsv == InitApp /\ [][NextCsv]_vars

\* C30: the tokenizer reads a field in double quotes as one cell: a comma
\* or a line break inside the quotes splits neither the cell nor the row,
\* and a doubled quote inside the quotes gives one quote character.
C30_QuotedFieldIsOneCell ==
  \A g \in CsvGrids :
    (stagedRows # <<>> /\ textarea = CsvText(g)) => stagedRows[1] = g

\* the file read held a quoted cell with a line break, a doubled quote and
\* a comma, and the cell was staged whole
C30_Witness ==
  /\ stagedRows # <<>>
  /\ textarea = "Date,Note\na,\"x\n\"\",y\"\n"
  /\ stagedRows[1] = <<<<"Date", "Note">>, <<"a", "x\n\",y">>>>
====
